---- MODULE Spec2Model ----
(***************************************************************************)
(* Stock Lot Ledger of kbsteel (backend_core/app).                         *)
(*                                                                         *)
(* Weights are Decimal kilograms in the code.  A stored weight (a          *)
(* Numeric(15,3) column, or a value after quantize(Decimal('0.001'))) is   *)
(* modelled as an integer count of 0.001 kg.  A weight handed to the       *)
(* service before quantization is modelled as an integer count of          *)
(* 0.001/Scale kg ("raw" units), so that quantization is a real rounding.  *)
(***************************************************************************)
EXTENDS Integers, Sequences, FiniteSets, TLC

\* ------------------------------------------------------------------ bounds
MaxWeight == 2
MaxLots == 2
MaxMov == 3
MaxSplit == 1
MaxInbound == 1
MaxTicks == 1
MaxDispatches == 2

\* --------------------------------------------------------------- constants
Scale == 4
Padding == 6
Year0 == 2024
NoYear == 0
NoUser == 0
NoLocation == 0
NoReference == 0
CurrentUser == 1

QAStatus == {"pending", "approved", "rejected", "on_hold", "conditional"}
Locations == {1, 2}
Backends == {"sqlite", "postgres"}

RawWeights == 0..((MaxWeight + 1) * Scale)
Approvers == {NoUser, CurrentUser}
NProc == 2
Procs == 1..NProc

VARIABLES
    lots,           \* table stock_lots: sequence indexed by id
    movements,      \* table stock_movements, in commit (insert) order
    seqs,           \* table number_sequences: sequence_name -> row or NoRow
    current_year,   \* datetime.utcnow().year
    backend,        \* the database behind DATABASE_URL
    result,         \* outcome of the last service call
    txn,            \* per worker process: the request it is serving
    locks,          \* lock -> the worker holding it (0 when free)
    grns,           \* table goods_receipt_notes with the grn_line_items of each
    dispatches      \* table dispatch_notes with the dispatch_line_items of each

vars == <<lots, movements, seqs, current_year, backend, result, txn, locks,
          grns, dispatches>>

\* ------------------------------------------------------- weight utilities

\* Decimal.quantize(Decimal('0.001')) under the default context rounding
\* (ROUND_HALF_EVEN), on a non-negative raw weight.
Quantize(raw) ==
    LET q == raw \div Scale
        rem == raw % Scale
    IN  IF 2 * rem < Scale THEN q
        ELSE IF 2 * rem > Scale THEN q + 1
        ELSE IF q % 2 = 0 THEN q ELSE q + 1

\* Raw values that lie exactly between two stored values.
IsTie(raw) == 2 * (raw % Scale) = Scale
TieRaws == {r \in 0..(MaxWeight * Scale) : IsTie(r)}

\* How a Numeric(15,3) column resolves each tie (1 = away from zero).
\* PostgreSQL rounds every tie away from zero; SQLite keeps the float and
\* SQLAlchemy formats it with "%.3f", so a tie falls on the side of that
\* value's binary approximation.
TieFns(be, used) ==
    IF be = "postgres" THEN {[r \in TieRaws |-> 1]}
    ELSE {t \in [TieRaws -> {0, 1}] : \A r \in TieRaws \ used : t[r] = 1}

\* QA statuses of the GRN lines, and the locations, that lots are received
\* with in this model.  approve_grn hands over approved and conditional
\* lines only; create_lot_from_grn itself copies whatever status the line has.
QAInputs == QAStatus \ {"rejected", "on_hold"}
InboundLocations == {1}
InboundMaterials == {1}
InboundGrns == {1}

\* The value a Numeric(15,3) column hands back for a raw Decimal written to
\* it; a negative value rounds as its magnitude does.
Numeric3(raw, tie) ==
    LET mag == IF raw < 0 THEN -raw ELSE raw
        q == mag \div Scale
        rem == mag % Scale
        rounded == IF 2 * rem < Scale THEN q
                   ELSE IF 2 * rem > Scale THEN q + 1
                   ELSE q + tie[mag]
    IN  IF raw < 0 THEN -rounded ELSE rounded

\* A stored weight seen as a raw Decimal.
ToRaw(w) == w * Scale

RECURSIVE SumSeq(_)
SumSeq(s) == IF s = <<>> THEN 0 ELSE Head(s) + SumSeq(Tail(s))

\* ------------------------------------------------------ number sequences
NoRow == [absent |-> TRUE]
SeqNames == {"lot", "movement", "grn", "dispatch"}

\* get_next_sequence without the year check: the stored year follows the
\* clock but the counter runs on.
get_next_sequence_NoReset(seq, prefix, year_wise, now) ==
    LET cy == IF year_wise THEN now ELSE NoYear
        created == IF seq = NoRow
                   THEN [prefix |-> prefix, current_number |-> 0,
                         year |-> cy, padding |-> Padding]
                   ELSE seq
        bumped == [created EXCEPT !.current_number = @ + 1, !.year = cy]
    IN  [row |-> bumped,
         number |-> IF year_wise
                    THEN <<bumped.prefix, cy, bumped.current_number>>
                    ELSE <<bumped.prefix, bumped.current_number>>]

\* get_next_sequence on the row the session sees (NoRow when absent):
\* returns the row to persist and the formatted number.
get_next_sequence(seq, prefix, year_wise, now) ==
    LET cy == IF year_wise THEN now ELSE NoYear
        created == IF seq = NoRow
                   THEN [prefix |-> prefix, current_number |-> 0,
                         year |-> cy, padding |-> Padding]
                   ELSE seq
        rolled == IF year_wise /\ created.year # cy
                  THEN [created EXCEPT !.current_number = 0, !.year = cy]
                  ELSE created
        bumped == [rolled EXCEPT !.current_number = @ + 1]
    IN  [row |-> bumped,
         number |-> IF year_wise
                    THEN <<bumped.prefix, cy, bumped.current_number>>
                    ELSE <<bumped.prefix, bumped.current_number>>]

\* k successive calls in one session: the results in call order.
RECURSIVE SeqCalls(_, _, _, _)
SeqCalls(seq, prefix, now, k) ==
    IF k = 0 THEN <<>>
    ELSE LET r == get_next_sequence(seq, prefix, TRUE, now)
         IN  <<r>> \o SeqCalls(r.row, prefix, now, k - 1)

\* ------------------------------------------------------------ stock lots

\* The CHECK constraints without check_current_not_exceeds_net.
CheckConstraints_NoNetBound(lot) ==
    /\ lot.current_weight_kg >= 0
    /\ lot.net_weight_kg <= lot.gross_weight_kg

\* StockLot.__table_args__: the CHECK constraints of table stock_lots.
CheckConstraints(lot) ==
    /\ lot.current_weight_kg >= 0
    /\ lot.current_weight_kg <= lot.net_weight_kg
    /\ lot.net_weight_kg <= lot.gross_weight_kg

\* StockLot.validate_current_weight: assigning a negative weight raises.
validate_current_weight(value) == value >= 0

Fail(e, lot) == [err |-> e, lot |-> lot, movs |-> <<>>, new_lots |-> <<>>]

\* A StockMovement before its movement_number and stock_lot_id are set;
\* child = 0 for the locked lot, i for the i-th lot the call creates.
Movement(child, type, change, before, after, approver) ==
    [child |-> child, movement_type |-> type, weight_change_kg |-> change,
     weight_before_kg |-> before, weight_after_kg |-> after,
     from_location_id |-> NoLocation, to_location_id |-> NoLocation,
     reference_type |-> "none", reference_id |-> NoReference,
     created_by |-> CurrentUser, approved_by |-> approver]

\* A receipt that books the lot as an adjustment of stock already held.
create_lot_from_grn_AsAdjustment(grn_line, location_id, now) ==
    LET lot == [material_id |-> grn_line.material_id,
                gross_weight_kg |-> grn_line.weight_kg, tare_weight_kg |-> 0,
                net_weight_kg |-> grn_line.weight_kg,
                current_weight_kg |-> grn_line.weight_kg,
                qa_status |-> grn_line.qa_status,
                location_id |-> location_id, received_date |-> now,
                is_active |-> TRUE, is_blocked |-> FALSE]
    IN  [err |-> "ok", lot |-> lot, new_lots |-> <<lot>>,
         movs |-> <<Movement(1, "adjustment_plus", 0, lot.net_weight_kg,
                             lot.net_weight_kg, NoUser)>>]

\* A receipt that writes the weight of the line to tare_weight_kg as well.
create_lot_from_grn_TareAsWeight(grn_line, location_id, now) ==
    LET lot == [material_id |-> grn_line.material_id,
                gross_weight_kg |-> grn_line.weight_kg,
                tare_weight_kg |-> grn_line.weight_kg,
                net_weight_kg |-> grn_line.weight_kg,
                current_weight_kg |-> grn_line.weight_kg,
                qa_status |-> grn_line.qa_status,
                location_id |-> location_id, received_date |-> now,
                is_active |-> TRUE, is_blocked |-> FALSE]
    IN  [err |-> "ok", lot |-> lot, new_lots |-> <<lot>>,
         movs |-> <<[Movement(1, "inward_purchase", lot.net_weight_kg, 0,
                              lot.net_weight_kg, NoUser)
                        EXCEPT !.to_location_id = location_id,
                               !.reference_type = "grn",
                               !.reference_id = grn_line.grn_id]>>]

\* StockLotService.create_lot_from_grn at time now: the lot and its inward
\* movement for a GRN line [grn_id, material_id, weight_kg, qa_status].
create_lot_from_grn(grn_line, location_id, now) ==
    LET lot == [material_id |-> grn_line.material_id,
                gross_weight_kg |-> grn_line.weight_kg, tare_weight_kg |-> 0,
                net_weight_kg |-> grn_line.weight_kg,
                current_weight_kg |-> grn_line.weight_kg,
                qa_status |-> grn_line.qa_status,
                location_id |-> location_id, received_date |-> now,
                is_active |-> TRUE, is_blocked |-> FALSE]
    IN  [err |-> "ok", lot |-> lot, new_lots |-> <<lot>>,
         movs |-> <<[Movement(1, "inward_purchase", lot.net_weight_kg, 0,
                              lot.net_weight_kg, NoUser)
                        EXCEPT !.to_location_id = location_id,
                               !.reference_type = "grn",
                               !.reference_id = grn_line.grn_id]>>]

\* The status checks without the is_blocked check.
lot_status_ok_NoBlockCheck(lot) ==
    /\ lot.is_active
    /\ lot.qa_status \in {"approved", "conditional"}

\* consume_from_lot, "Validate lot status": the three checks made, in this
\* order, before the stock check.
lot_status_ok(lot) ==
    /\ lot.is_active
    /\ ~lot.is_blocked
    /\ lot.qa_status \in {"approved", "conditional"}

\* The stock check made against the net weight of the lot.
insufficient_stock_AgainstNet(lot, weight_kg) == lot.net_weight_kg < weight_kg

\* The stock check refusing also a weight equal to the stock.
insufficient_stock_Strict(lot, weight_kg) == lot.current_weight_kg <= weight_kg

\* consume_from_lot, "Check available stock", on the quantized weight.
insufficient_stock(lot, weight_kg) == lot.current_weight_kg < weight_kg

\* The lot update without "Mark inactive if fully consumed".
update_consumed_KeepActive(lot, weight_after) ==
    [lot EXCEPT !.current_weight_kg = weight_after]

\* A lot update that writes the remaining weight to net_weight_kg as well.
update_consumed_ShrinkNet(lot, weight_after) ==
    [lot EXCEPT !.current_weight_kg = weight_after,
                !.net_weight_kg = weight_after,
                !.is_active = weight_after > 0]

\* consume_from_lot, "Update lot" and "Mark inactive if fully consumed".
update_consumed(lot, weight_after) ==
    IF weight_after <= 0
    THEN [lot EXCEPT !.current_weight_kg = 0, !.is_active = FALSE]
    ELSE [lot EXCEPT !.current_weight_kg = weight_after]

\* A consume that leaves the reference of its movement empty.
consume_from_lot_NoReference(lot, raw_weight, reference_type, reference_id) ==
    LET weight_kg == Quantize(raw_weight)
        weight_before == lot.current_weight_kg
        weight_after == weight_before - weight_kg
    IN  IF ~lot_status_ok(lot) THEN Fail("InvalidOperation", lot)
        ELSE IF insufficient_stock(lot, weight_kg)
        THEN Fail("InsufficientStock", lot)
        ELSE [err |-> "ok", lot |-> update_consumed(lot, weight_after),
              new_lots |-> <<>>,
              movs |-> <<[Movement(0, "consumption", -weight_kg,
                                   weight_before, weight_after, NoUser)
                             EXCEPT !.from_location_id = lot.location_id]>>]

\* StockLotService.consume_from_lot on the lot object the session holds;
\* the reference of the caller goes to the movement as it is given.
consume_from_lot(lot, raw_weight, reference_type, reference_id) ==
    LET weight_kg == Quantize(raw_weight)
        weight_before == lot.current_weight_kg
        weight_after == weight_before - weight_kg
    IN  IF ~lot_status_ok(lot) THEN Fail("InvalidOperation", lot)
        ELSE IF insufficient_stock(lot, weight_kg)
        THEN Fail("InsufficientStock", lot)
        ELSE IF ~validate_current_weight(weight_after)
        THEN Fail("ValueError", lot)
        ELSE [err |-> "ok", lot |-> update_consumed(lot, weight_after),
              new_lots |-> <<>>,
              movs |-> <<[Movement(0, "consumption", -weight_kg,
                                   weight_before, weight_after, NoUser)
                             EXCEPT !.from_location_id = lot.location_id,
                                    !.reference_type = reference_type,
                                    !.reference_id = reference_id]>>]

\* An approval rule that lets every adjustment through.
approval_missing_Never(weight_change, approved_by) == FALSE

\* adjust_stock, "Negative adjustments should be approved".
approval_missing(weight_change, approved_by) ==
    weight_change < 0 /\ approved_by = NoUser

\* An adjust that leaves is_active as it finds it unless the weight is 0.
adjust_stock_NoReactivate(lot, raw_new_weight, approved_by) ==
    LET new_weight_kg == Quantize(raw_new_weight)
        weight_change == new_weight_kg - lot.current_weight_kg
        movement_type == IF weight_change > 0 THEN "adjustment_plus"
                         ELSE "adjustment_minus"
        updated == IF new_weight_kg <= 0
                   THEN [lot EXCEPT !.current_weight_kg = 0,
                                    !.is_active = FALSE]
                   ELSE [lot EXCEPT !.current_weight_kg = new_weight_kg]
    IN  IF weight_change = 0 THEN Fail("InvalidOperation", lot)
        ELSE IF approval_missing(weight_change, approved_by)
        THEN Fail("InvalidOperation", lot)
        ELSE [err |-> "ok", lot |-> updated, new_lots |-> <<>>,
              movs |-> <<Movement(0, movement_type, weight_change,
                                  lot.current_weight_kg, new_weight_kg,
                                  approved_by)>>]

\* StockLotService.adjust_stock on the lot object the session holds.
adjust_stock(lot, raw_new_weight, approved_by) ==
    LET new_weight_kg == Quantize(raw_new_weight)
        weight_change == new_weight_kg - lot.current_weight_kg
        movement_type == IF weight_change > 0 THEN "adjustment_plus"
                         ELSE "adjustment_minus"
        updated == IF new_weight_kg <= 0
                   THEN [lot EXCEPT !.current_weight_kg = 0,
                                    !.is_active = FALSE]
                   ELSE [lot EXCEPT !.current_weight_kg = new_weight_kg,
                                    !.is_active = TRUE]
    IN  IF weight_change = 0 THEN Fail("InvalidOperation", lot)
        ELSE IF approval_missing(weight_change, approved_by)
        THEN Fail("InvalidOperation", lot)
        ELSE IF ~validate_current_weight(new_weight_kg)
        THEN Fail("ValueError", lot)
        ELSE [err |-> "ok", lot |-> updated, new_lots |-> <<>>,
              movs |-> <<Movement(0, movement_type, weight_change,
                                  lot.current_weight_kg, new_weight_kg,
                                  approved_by)>>]

\* A transfer whose movement names no location.
transfer_location_NoLocations(lot, to_location_id) ==
    IF lot.location_id = to_location_id THEN Fail("InvalidOperation", lot)
    ELSE [err |-> "ok", lot |-> [lot EXCEPT !.location_id = to_location_id],
          new_lots |-> <<>>,
          movs |-> <<Movement(0, "inward_transfer", 0, lot.current_weight_kg,
                              lot.current_weight_kg, NoUser)>>]

\* StockLotService.transfer_location on the lot object the session holds.
transfer_location(lot, to_location_id) ==
    IF lot.location_id = to_location_id THEN Fail("InvalidOperation", lot)
    ELSE [err |-> "ok", lot |-> [lot EXCEPT !.location_id = to_location_id],
          new_lots |-> <<>>,
          movs |-> <<[Movement(0, "inward_transfer", 0,
                               lot.current_weight_kg, lot.current_weight_kg,
                               NoUser)
                         EXCEPT !.from_location_id = lot.location_id,
                                !.to_location_id = to_location_id]>>]

\* The stock check of a split made on the quantized total.
split_exceeds_stock_Quantized(lot, total_split_weight) ==
    Quantize(total_split_weight) > lot.current_weight_kg

\* split_lot, "total_split_weight > lot.current_weight_kg": the unquantized
\* total against the stored weight.
split_exceeds_stock(lot, total_split_weight) ==
    total_split_weight > ToRaw(lot.current_weight_kg)

\* StockLotService.split_lot on the lot object the session holds; tie says
\* how the weight columns round the unquantized Decimals written to them.
\* The reference_id of a "split_from" movement, the id of the parent, is
\* filled in where the movement is inserted.
split_lot(lot, weights, tie) ==
    LET total_split_weight == SumSeq(weights)
        remaining == ToRaw(lot.current_weight_kg) - total_split_weight
        child(i) == [material_id |-> lot.material_id,
                     gross_weight_kg |-> Numeric3(weights[i], tie),
                     tare_weight_kg |-> 0,
                     net_weight_kg |-> Numeric3(weights[i], tie),
                     current_weight_kg |-> Numeric3(weights[i], tie),
                     qa_status |-> lot.qa_status,
                     location_id |-> lot.location_id,
                     received_date |-> lot.received_date,
                     is_active |-> TRUE, is_blocked |-> FALSE]
        movement_in(i) == [Movement(i, "split", Numeric3(weights[i], tie),
                                    0, Numeric3(weights[i], tie), NoUser)
                              EXCEPT !.reference_type = "split_from"]
        movement_out == Movement(0, "split",
                                 -Numeric3(total_split_weight, tie),
                                 lot.current_weight_kg,
                                 Numeric3(remaining, tie), NoUser)
        updated == IF remaining <= 0
                   THEN [lot EXCEPT !.current_weight_kg = 0,
                                    !.is_active = FALSE]
                   ELSE [lot EXCEPT !.current_weight_kg =
                                        Numeric3(remaining, tie)]
    IN  IF split_exceeds_stock(lot, total_split_weight)
        THEN Fail("InsufficientStock", lot)
        ELSE IF \E i \in DOMAIN weights : ~validate_current_weight(weights[i])
        THEN Fail("ValueError", lot)
        ELSE [err |-> "ok", lot |-> updated,
              new_lots |-> [i \in 1..Len(weights) |-> child(i)],
              movs |-> [i \in 1..Len(weights) |-> movement_in(i)]
                       \o <<movement_out>>]

\* ------------------------------------------------------------ persistence

LotFields == {"material_id", "gross_weight_kg", "tare_weight_kg",
              "net_weight_kg", "current_weight_kg", "qa_status",
              "location_id", "received_date", "is_active", "is_blocked"}

\* The UPDATE the unit of work emits for a loaded lot: only the columns
\* whose value differs from the loaded one are written over the row.
UpdateRow(row, loaded, obj) ==
    [f \in DOMAIN row |->
        IF f \in LotFields /\ obj[f] # loaded[f] THEN obj[f] ELSE row[f]]

LotNumbers(ls) == {ls[i].lot_number : i \in DOMAIN ls}
MovementNumbers(ms) == {ms[i].movement_number : i \in DOMAIN ms}

\* An insert that writes over the last row of the log.
InsertMovements_OverLast(log, rows) ==
    IF log = <<>> \/ rows = <<>> THEN log \o rows
    ELSE SubSeq(log, 1, Len(log) - 1) \o rows

\* db.add(movement) at the commit: the INSERTs into stock_movements, after
\* the rows the table holds.
InsertMovements(log, rows) == log \o rows

\* Flush and commit of one service call: l is the locked lot (0 when the
\* call only creates), loaded the lot object as it was read, res the
\* outcome of the call, lot_seq and mov_seq the number_sequences rows as
\* the session read them.  Yields the tables after the commit, or the
\* error that rolls the transaction back.
Persist(l, loaded, res, lot_seq, mov_seq, now) ==
    LET nl == Len(res.new_lots)
        nm == Len(res.movs)
        lot_calls == SeqCalls(lot_seq, "LOT", now, nl)
        mov_calls == SeqCalls(mov_seq, "MOV", now, nm)
        base == Len(lots)
        inserted_lots ==
            [i \in 1..nl |->
                [lot_number |-> lot_calls[i].number] @@ res.new_lots[i]]
        inserted_movs ==
            [i \in 1..nm |->
                [movement_number |-> mov_calls[i].number,
                 stock_lot_id |-> IF res.movs[i].child = 0 THEN l
                                  ELSE base + res.movs[i].child,
                 movement_type |-> res.movs[i].movement_type,
                 weight_change_kg |-> res.movs[i].weight_change_kg,
                 weight_before_kg |-> res.movs[i].weight_before_kg,
                 weight_after_kg |-> res.movs[i].weight_after_kg,
                 from_location_id |-> res.movs[i].from_location_id,
                 to_location_id |-> res.movs[i].to_location_id,
                 reference_type |-> res.movs[i].reference_type,
                 reference_id |-> IF res.movs[i].reference_type = "split_from"
                                  THEN l ELSE res.movs[i].reference_id,
                 created_by |-> res.movs[i].created_by,
                 approved_by |-> res.movs[i].approved_by]]
        updated_lots ==
            IF l = 0 THEN lots
            ELSE [lots EXCEPT ![l] = UpdateRow(lots[l], loaded, res.lot)]
        new_lots == updated_lots \o inserted_lots
        new_seqs ==
            [n \in SeqNames |->
                IF n = "lot" /\ nl > 0 THEN lot_calls[nl].row
                ELSE IF n = "movement" /\ nm > 0 THEN mov_calls[nm].row
                ELSE seqs[n]]
        unique ==
            /\ \A i \in 1..nl :
                  /\ inserted_lots[i].lot_number \notin LotNumbers(lots)
                  /\ \A j \in 1..nl : inserted_lots[j].lot_number
                        = inserted_lots[i].lot_number => j = i
            /\ \A i \in 1..nm :
                  /\ inserted_movs[i].movement_number
                        \notin MovementNumbers(movements)
                  /\ \A j \in 1..nm : inserted_movs[j].movement_number
                        = inserted_movs[i].movement_number => j = i
            /\ nl > 0 /\ lot_seq = NoRow => seqs["lot"] = NoRow
            /\ nm > 0 /\ mov_seq = NoRow => seqs["movement"] = NoRow
        checks == \A i \in DOMAIN new_lots : CheckConstraints(new_lots[i])
    IN  IF res.err # "ok"
        THEN [err |-> res.err, lots |-> lots, movements |-> movements,
              seqs |-> seqs]
        ELSE IF ~(unique /\ checks)
        THEN [err |-> "IntegrityError", lots |-> lots,
              movements |-> movements, seqs |-> seqs]
        ELSE [err |-> "ok", lots |-> new_lots,
              movements |-> InsertMovements(movements, inserted_movs),
              seqs |-> new_seqs]

\* ------------------------------------------------- one request at a time
\* Each handler below runs from its first query to its commit with no other
\* request in between (one worker process serving its requests in turn).

LotIds == 1..MaxLots

SplitInputs ==
    UNION {[1..n -> 0..(MaxWeight * Scale)] : n \in 0..MaxSplit}

\* The raw values a split of lot l by ws writes to weight columns.
SplitValues(l, ws) ==
    {ws[i] : i \in DOMAIN ws} \cup {SumSeq(ws)}
    \cup (IF l \in DOMAIN lots
          THEN {ToRaw(lots[l].current_weight_kg) - SumSeq(ws)} ELSE {})

Idle == [pc |-> "idle"]
DispatchIds == 1..MaxDispatches
LockNames == {<<"db", 0>>} \cup {<<"lot", l>> : l \in LotIds}
                    \cup {<<"seq", n>> : n \in SeqNames}
                    \cup {<<"dispatch", d>> : d \in DispatchIds}

\* Runs one service call to its commit.  The guard caps the tables of the
\* model; a call that fails writes nothing and is never capped.
Apply(op, l, loaded, res) ==
    /\ res.err = "ok" => /\ Len(lots) + Len(res.new_lots) <= MaxLots
                         /\ Len(movements) + Len(res.movs) <= MaxMov
    /\ LET p == Persist(l, loaded, res, seqs["lot"], seqs["movement"],
                        current_year)
       IN  /\ lots' = p.lots
           /\ movements' = p.movements
           /\ seqs' = p.seqs
           /\ result' = [op |-> op, err |-> p.err]
    /\ UNCHANGED <<current_year, backend, txn, locks, grns, dispatches>>

NotFound(op) ==
    /\ result' = [op |-> op, err |-> "NotFound"]
    /\ UNCHANGED <<lots, movements, seqs, current_year, backend, txn,
                 locks, grns, dispatches>>

\* StockLotService.create_lot_from_grn for one GRN line, as approve_grn
\* calls it, committed on its own.
CreateFromInbound(material_id, weight_kg, qa, location_id) ==
    /\ Cardinality({i \in DOMAIN movements :
            movements[i].movement_type = "inward_purchase"}) < MaxInbound
    /\ \E g \in InboundGrns :
          Apply("create", 0, <<>>,
                create_lot_from_grn([grn_id |-> g, material_id |-> material_id,
                                     weight_kg |-> weight_kg,
                                     qa_status |-> qa],
                                    location_id, current_year))

\* POST /consume
Consume(l, raw) ==
    IF l \notin DOMAIN lots THEN NotFound("consume")
    ELSE Apply("consume", l, lots[l],
               consume_from_lot(lots[l], raw, "none", NoReference))

\* POST /adjust
Adjust(l, raw, approved_by) ==
    IF l \notin DOMAIN lots THEN NotFound("adjust")
    ELSE Apply("adjust", l, lots[l], adjust_stock(lots[l], raw, approved_by))

\* POST /transfer-location
Transfer(l, to) ==
    IF l \notin DOMAIN lots THEN NotFound("transfer")
    ELSE Apply("transfer", l, lots[l], transfer_location(lots[l], to))

\* StockLotService.split_lot
Split(l, weights, tie) ==
    IF l \notin DOMAIN lots THEN NotFound("split")
    ELSE Apply("split", l, lots[l], split_lot(lots[l], weights, tie))

\* A manual hold placed on a lot (column is_blocked, "manual block for
\* disputes"); no service call sets it.
BlockLot(l) ==
    /\ l \in DOMAIN lots
    /\ ~lots[l].is_blocked
    /\ lots' = [lots EXCEPT ![l].is_blocked = TRUE]
    /\ UNCHANGED <<movements, seqs, current_year, backend, result,
                 txn, locks, grns, dispatches>>

\* The calendar year of datetime.utcnow() moves on.
Tick ==
    /\ current_year < Year0 + MaxTicks
    /\ current_year' = current_year + 1
    /\ UNCHANGED <<lots, movements, seqs, backend, result, txn,
                 locks, grns, dispatches>>

Init ==
    /\ lots = <<>>
    /\ movements = <<>>
    /\ seqs = [n \in SeqNames |-> NoRow]
    /\ current_year = Year0
    /\ backend = "sqlite"
    /\ result = [op |-> "none", err |-> "ok"]
    /\ txn = [p \in Procs |-> Idle]
    /\ locks = [k \in LockNames |-> 0]
    /\ grns = <<>>
    /\ dispatches = <<>>

Next ==
    \/ \E mat \in InboundMaterials, w \in 0..MaxWeight, qa \in QAInputs,
          loc \in InboundLocations : CreateFromInbound(mat, w, qa, loc)
    \/ \E l \in LotIds, raw \in RawWeights \ {0} : Consume(l, raw)
    \/ \E l \in LotIds, raw \in RawWeights, a \in Approvers :
          Adjust(l, raw, a)
    \/ \E l \in LotIds, to \in Locations : Transfer(l, to)
    \/ \E l \in LotIds, ws \in SplitInputs :
          \E tie \in TieFns(backend, SplitValues(l, ws)) : Split(l, ws, tie)
    \/ \E l \in LotIds : BlockLot(l)
    \/ Tick

Spec == Init /\ [][Next]_vars

\* ------------------------------------------- requests served concurrently
\* Several worker processes, each with its own session, serve requests on
\* the same database.  A request runs in the steps at which its session
\* talks to the database:
\*   Begin      SELECT ... FOR UPDATE of the lot, then the checks of the call
\*   SelectSequence SELECT ... FOR UPDATE of the number_sequences row
\*   Flush      db.flush(): UPDATE of the number_sequences row
\*   Commit     INSERT of the movement, UPDATE of the lot, COMMIT
\* PostgreSQL takes a row lock at each SELECT ... FOR UPDATE and holds it to
\* the end of the transaction.  The SQLite dialect emits no FOR UPDATE and
\* the driver opens the transaction at the first UPDATE/INSERT only, which
\* takes the database write lock; the SELECTs before it read the committed
\* rows and lock nothing.

InFlight == Cardinality({p \in Procs : txn[p].pc # "idle"})

Release(p) == [k \in LockNames |-> IF locks[k] = p THEN 0 ELSE locks[k]]

\* First step of a call on lot l: res is the outcome the call computes from
\* the lot it read.  A call that fails its checks ends here.
Begin(p, op, l, res) ==
    /\ txn[p].pc = "idle"
    /\ Len(movements) + InFlight < MaxMov
    /\ backend = "postgres" => locks[<<"lot", l>>] = 0
    /\ IF res.err # "ok"
       THEN /\ result' = [op |-> op, err |-> res.err]
            /\ UNCHANGED <<txn, locks>>
       ELSE /\ txn' = [txn EXCEPT ![p] =
                          [pc |-> "locked", op |-> op, lot_id |-> l,
                           loaded |-> lots[l], res |-> res,
                           seen |-> NoRow, number |-> <<>>]]
            /\ locks' = IF backend = "postgres"
                        THEN [locks EXCEPT ![<<"lot", l>>] = p] ELSE locks
            /\ UNCHANGED result
    /\ UNCHANGED <<lots, movements, seqs, current_year,
                 backend, grns, dispatches>>

BeginConsume(p, l, raw) ==
    /\ l \in DOMAIN lots
    /\ Begin(p, "consume", l,
             consume_from_lot(lots[l], raw, "none", NoReference))

BeginAdjust(p, l, raw, approved_by) ==
    /\ l \in DOMAIN lots
    /\ Begin(p, "adjust", l, adjust_stock(lots[l], raw, approved_by))

BeginTransfer(p, l, to) ==
    /\ l \in DOMAIN lots
    /\ Begin(p, "transfer", l, transfer_location(lots[l], to))

\* get_next_sequence, "Lock the row for update".
SelectSequence(p) ==
    /\ txn[p].pc = "locked"
    /\ (backend = "postgres" /\ seqs["movement"] # NoRow)
          => locks[<<"seq", "movement">>] = 0
    /\ txn' = [txn EXCEPT ![p].pc = "seqread", ![p].seen = seqs["movement"]]
    /\ locks' = IF backend = "postgres" /\ seqs["movement"] # NoRow
                THEN [locks EXCEPT ![<<"seq", "movement">>] = p] ELSE locks
    /\ UNCHANGED <<lots, movements, seqs, current_year, backend,
                 result, grns, dispatches>>

\* get_next_sequence from the increment to its return: the number the call
\* hands back is computed from the row it read.
Flush(p) ==
    /\ txn[p].pc = "seqread"
    /\ backend = "sqlite" => locks[<<"db", 0>>] = 0
    /\ txn' = [txn EXCEPT
                  ![p].pc = "flushed",
                  ![p].number = get_next_sequence(txn[p].seen, "MOV", TRUE,
                                                  current_year).number]
    /\ locks' = IF backend = "sqlite"
                THEN [locks EXCEPT ![<<"db", 0>>] = p] ELSE locks
    /\ UNCHANGED <<lots, movements, seqs, current_year, backend,
                 result, grns, dispatches>>

\* The rest of the call and the commit of the request (or its rollback on
\* a constraint violation); the locks of the transaction are released.
Commit(p) ==
    /\ txn[p].pc = "flushed"
    /\ LET pr == Persist(txn[p].lot_id, txn[p].loaded, txn[p].res,
                         seqs["lot"], txn[p].seen, current_year)
       IN  /\ lots' = pr.lots
           /\ movements' = pr.movements
           /\ seqs' = pr.seqs
           /\ result' = [op |-> txn[p].op, err |-> pr.err]
    /\ txn' = [txn EXCEPT ![p] = Idle]
    /\ locks' = Release(p)
    /\ UNCHANGED <<current_year, backend, grns, dispatches>>

\* A GRN approval that creates a lot, while no other request is running.
Receive(material_id, weight_kg, qa, location_id) ==
    /\ InFlight = 0
    /\ CreateFromInbound(material_id, weight_kg, qa, location_id)

InitConc ==
    /\ lots = <<>>
    /\ movements = <<>>
    /\ seqs = [n \in SeqNames |-> NoRow]
    /\ current_year = Year0
    /\ backend \in Backends
    /\ result = [op |-> "none", err |-> "ok"]
    /\ txn = [p \in Procs |-> Idle]
    /\ locks = [k \in LockNames |-> 0]
    /\ grns = <<>>
    /\ dispatches = <<>>

NextConc ==
    \/ \E mat \in InboundMaterials, w \in 1..MaxWeight,
          loc \in InboundLocations : Receive(mat, w, "approved", loc)
    \/ \E p \in Procs, l \in LotIds, w \in 1..MaxWeight :
          BeginConsume(p, l, ToRaw(w))
    \/ \E p \in Procs, l \in LotIds, w \in 0..MaxWeight :
          BeginAdjust(p, l, ToRaw(w), CurrentUser)
    \/ \E p \in Procs, l \in LotIds, to \in Locations :
          BeginTransfer(p, l, to)
    \/ \E p \in Procs : SelectSequence(p)
    \/ \E p \in Procs : Flush(p)
    \/ \E p \in Procs : Commit(p)

SpecConc == InitConc /\ [][NextConc]_vars

\* -------------------------------------------------------------- FIFO pick
Materials == {1, 2}
MaxFifoLots == 2

\* The filter of the pick without the is_blocked condition.
fifo_eligible_IgnoreBlock(lot, material_id, location_id) ==
    /\ lot.material_id = material_id
    /\ lot.is_active
    /\ lot.qa_status \in {"approved", "conditional"}
    /\ location_id # NoLocation => lot.location_id = location_id

\* get_lots_for_fifo_pick: the filter of the query.
fifo_eligible(lot, material_id, location_id) ==
    /\ lot.material_id = material_id
    /\ lot.is_active
    /\ ~lot.is_blocked
    /\ lot.qa_status \in {"approved", "conditional"}
    /\ location_id # NoLocation => lot.location_id = location_id

\* The orders in which the query may hand back the eligible lots of table
\* ls: ascending received_date, lots of one date in any order.
FifoOrders(ls, material_id, location_id) ==
    LET ids == {i \in DOMAIN ls :
                   fifo_eligible(ls[i], material_id, location_id)}
    IN  {o \in [1..Cardinality(ids) -> ids] :
            /\ \A i, j \in DOMAIN o : o[i] = o[j] => i = j
            /\ \A i, j \in DOMAIN o :
                  i < j => ls[o[i]].received_date <= ls[o[j]].received_date}

\* A pick that takes every lot whole.
fifo_pick_weight_WholeLot(lot, remaining) == ToRaw(lot.current_weight_kg)

\* get_lots_for_fifo_pick: min(lot.current_weight_kg, remaining).
fifo_pick_weight(lot, remaining) ==
    IF ToRaw(lot.current_weight_kg) <= remaining
    THEN ToRaw(lot.current_weight_kg) ELSE remaining

\* The loop of get_lots_for_fifo_pick over the lots in query order.
RECURSIVE FifoLoop(_, _, _)
FifoLoop(ls, order, remaining) ==
    IF order = <<>> \/ remaining <= 0
    THEN [picks |-> <<>>, remaining |-> remaining]
    ELSE LET pick_weight == fifo_pick_weight(ls[Head(order)], remaining)
             rest == FifoLoop(ls, Tail(order), remaining - pick_weight)
         IN  [picks |-> <<[lot |-> Head(order), weight |-> pick_weight]>>
                        \o rest.picks,
              remaining |-> rest.remaining]

\* InventoryQueryService.get_lots_for_fifo_pick on table ls, the query
\* handing back the lots in the given order; required is a raw weight.
get_lots_for_fifo_pick(ls, order, required) ==
    LET loop == FifoLoop(ls, order, required)
    IN  IF loop.remaining > 0
        THEN [err |-> "InsufficientStock", picks |-> <<>>,
              shortfall |-> loop.remaining]
        ELSE [err |-> "ok", picks |-> loop.picks, shortfall |-> 0]

\* The statuses a lot of the table below is in: consumable, blocked, QA
\* pending, or fully consumed.
FifoProfiles ==
    {[is_active |-> TRUE, is_blocked |-> b, qa_status |-> qa,
      current_weight_kg |-> w] :
        b \in BOOLEAN, qa \in {"approved", "pending"}, w \in 1..MaxWeight}
    \cup {[is_active |-> FALSE, is_blocked |-> FALSE,
           qa_status |-> "approved", current_weight_kg |-> 0]}

\* Lot tables the pick is applied to: lots received with MaxWeight in one of
\* two years and since drawn down, blocked or used up.
FifoTables ==
    UNION {[1..n -> [material_id : Materials, location_id : Locations,
                     received_date : Year0..(Year0 + 1),
                     profile : FifoProfiles]] : n \in 0..MaxFifoLots}

FifoLot(i, t) ==
    [lot_number |-> <<"LOT", t.received_date, i>>,
     material_id |-> t.material_id, gross_weight_kg |-> MaxWeight,
     tare_weight_kg |-> 0, net_weight_kg |-> MaxWeight,
     current_weight_kg |-> t.profile.current_weight_kg,
     qa_status |-> t.profile.qa_status, location_id |-> t.location_id,
     received_date |-> t.received_date, is_active |-> t.profile.is_active,
     is_blocked |-> t.profile.is_blocked]

\* The weights asked of the pick: whole grams, and a quarter gram more.
RequiredWeights ==
    {r \in 1..((2 * MaxWeight + 1) * Scale) : r % Scale \in {0, 1}}

PickRequests ==
    [pc : {"pick"}, material_id : Materials,
     location_id : {NoLocation} \cup Locations, required : RequiredWeights]

\* POST /{dispatch_id}/auto-pick up to the plan: the call of
\* get_lots_for_fifo_pick for the request worker p is serving, and what it
\* returns or raises.
PickForFifo(p, order) ==
    /\ txn[p].pc = "pick"
    /\ result' = [op |-> "pick", material_id |-> txn[p].material_id,
                  required |-> txn[p].required,
                  location_id |-> txn[p].location_id]
                 @@ get_lots_for_fifo_pick(lots, order, txn[p].required)
    /\ txn' = [txn EXCEPT ![p] = Idle]
    /\ UNCHANGED <<lots, movements, seqs, current_year, backend,
                 locks, grns, dispatches>>

InitFifo ==
    /\ \E t \in FifoTables : lots = [i \in DOMAIN t |-> FifoLot(i, t[i])]
    /\ movements = <<>>
    /\ seqs = [n \in SeqNames |-> NoRow]
    /\ current_year = Year0 + 1
    /\ backend = "sqlite"
    /\ result = [op |-> "none", err |-> "ok"]
    /\ \E r \in PickRequests : txn = [p \in Procs |-> IF p = 1 THEN r ELSE Idle]
    /\ locks = [k \in LockNames |-> 0]
    /\ grns = <<>>
    /\ dispatches = <<>>

NextFifo ==
    \E p \in {q \in Procs : txn[q].pc = "pick"} :
       \E order \in FifoOrders(lots, txn[p].material_id, txn[p].location_id) :
          PickForFifo(p, order)

SpecFifo == InitFifo /\ [][NextFifo]_vars

\* ------------------------------------------------------ document workflow
\* Goods receipt notes and dispatch notes.  A handler is an operator from the
\* committed tables to the tables it commits (or to the tables as they were,
\* with the error it answers); a document or line item id is its index.
\* GoodsReceiptNote.net_weight_kg is None until a weighment is recorded:
\* weighment_time = NoYear stands for that, net_weight_kg then holds 0.

MaxGrns == 1
MaxLines == 2
MaxGross == 1
MaxOpen == 1

DocumentStatus == {"draft", "submitted", "approved", "cancelled"}

Db == [lots |-> lots, movements |-> movements, seqs |-> seqs, grns |-> grns,
       dispatches |-> dispatches]

\* An error answered with nothing written (or after db.rollback()).
Reject(e) == [err |-> e] @@ Db

Commits(db) == [err |-> "ok"] @@ db

\* The weights a line item request carries: positive (Field gt=0), here off
\* the ties of round(v, 3).
LineWeights == {1} \cup {ToRaw(w) : w \in 1..MaxWeight}

\* GRNLineItemCreate.round_precision and DispatchLineItemCreate.round_weight.
round_precision(raw) == Quantize(raw)

\* GRNService.create_grn with the commit of POST /grn.
create_grn(now) ==
    LET n == get_next_sequence(seqs["grn"], "GRN", TRUE, now)
    IN  Commits([Db EXCEPT
            !.seqs["grn"] = n.row,
            !.grns = Append(@, [grn_number |-> n.number, status |-> "draft",
                                net_weight_kg |-> 0, weighment_time |-> NoYear,
                                line_items |-> <<>>])])

\* GRNService.add_line_item with the commit of POST /grn/{id}/line-items.
add_line_item(grn_id, material_id, raw_weight) ==
    IF grn_id \notin DOMAIN grns THEN Reject("NotFound")
    ELSE IF grns[grn_id].status # "draft" THEN Reject("InvalidOperation")
    ELSE Commits([Db EXCEPT !.grns[grn_id].line_items =
            Append(@, [grn_id |-> grn_id, material_id |-> material_id,
                       weight_kg |-> round_precision(raw_weight),
                       qa_status |-> "pending"])])

\* POST /grn/{id}/weighment
record_weighment(grn_id, gross_weight_kg, tare_weight_kg, now) ==
    IF grn_id \notin DOMAIN grns THEN Reject("NotFound")
    ELSE IF grns[grn_id].status # "draft" THEN Reject("BadRequest")
    ELSE Commits([Db EXCEPT
            !.grns[grn_id].net_weight_kg = gross_weight_kg - tare_weight_kg,
            !.grns[grn_id].weighment_time = now])

\* A submit accepting a document without line items.
no_line_items_Allowed(document) == FALSE

\* submit_grn and submit_dispatch, "if not ... .line_items".
no_line_items(document) == document.line_items = <<>>

\* submit_grn, "if not grn.net_weight_kg": None and 0 alike.
no_weighment(grn) == grn.weighment_time = NoYear \/ grn.net_weight_kg = 0

\* POST /grn/{id}/submit
submit_grn(grn_id) ==
    IF grn_id \notin DOMAIN grns THEN Reject("NotFound")
    ELSE IF grns[grn_id].status # "draft" THEN Reject("BadRequest")
    ELSE IF no_line_items(grns[grn_id]) THEN Reject("BadRequest")
    ELSE IF no_weighment(grns[grn_id]) THEN Reject("BadRequest")
    ELSE Commits([Db EXCEPT !.grns[grn_id].status = "submitted"])

\* record_qa_inspection, the loop: an inspection of a line item that is not
\* of this GRN is skipped.
RECURSIVE inspect_lines(_, _)
inspect_lines(line_items, inspections) ==
    IF inspections = <<>> THEN line_items
    ELSE LET i == Head(inspections)
         IN  inspect_lines(
                 IF i.line_item_id \in DOMAIN line_items
                 THEN [line_items EXCEPT
                          ![i.line_item_id].qa_status = i.status]
                 ELSE line_items,
                 Tail(inspections))

\* POST /grn/{id}/qa-inspection
record_qa_inspection(grn_id, inspections) ==
    IF grn_id \notin DOMAIN grns THEN Reject("NotFound")
    ELSE IF grns[grn_id].status # "submitted" THEN Reject("BadRequest")
    ELSE Commits([Db EXCEPT !.grns[grn_id].line_items =
                                inspect_lines(@, inspections)])

\* approve_grn without "Check all lines have QA decision".
pending_qa_Ignored(line_items) == {}

\* approve_grn, "Check all lines have QA decision".
pending_qa(line_items) ==
    {i \in DOMAIN line_items : line_items[i].qa_status = "pending"}

\* approve_grn, the loop: one create_lot_from_grn per approved or conditional
\* line, in line order; the i-th lot created carries the i-th movement.
receive_lines(line_items, location_id, now) ==
    LET accepted == SelectSeq(line_items, LAMBDA line :
                        line.qa_status \in {"approved", "conditional"})
        made(i) == create_lot_from_grn(accepted[i], location_id, now)
    IN  [err |-> "ok", lot |-> <<>>,
         new_lots |-> [i \in 1..Len(accepted) |-> made(i).new_lots[1]],
         movs |-> [i \in 1..Len(accepted) |->
                      [made(i).movs[1] EXCEPT !.child = i]]]

\* GRNService.approve_grn with the commit, or the rollback on any exception,
\* of POST /grn/{id}/approve.
approve_grn(grn_id, location_id, now) ==
    IF grn_id \notin DOMAIN grns THEN Reject("NotFound")
    ELSE IF grns[grn_id].status # "submitted" THEN Reject("InvalidOperation")
    ELSE IF pending_qa(grns[grn_id].line_items) # {}
    THEN Reject("InvalidOperation")
    ELSE LET p == Persist(0, <<>>,
                          receive_lines(grns[grn_id].line_items, location_id,
                                        now),
                          seqs["lot"], seqs["movement"], now)
         IN  IF p.err # "ok" THEN Reject(p.err)
             ELSE Commits([Db EXCEPT !.lots = p.lots,
                                     !.movements = p.movements,
                                     !.seqs = p.seqs,
                                     !.grns[grn_id].status = "approved"])

\* A cancel that asks for no status.
cancel_grn_FromAny(grn_id) ==
    IF grn_id \notin DOMAIN grns THEN Reject("NotFound")
    ELSE Commits([Db EXCEPT !.grns[grn_id].status = "cancelled"])

\* POST /grn/{id}/cancel
cancel_grn(grn_id) ==
    IF grn_id \notin DOMAIN grns THEN Reject("NotFound")
    ELSE IF grns[grn_id].status = "approved" THEN Reject("BadRequest")
    ELSE IF grns[grn_id].status = "cancelled" THEN Reject("BadRequest")
    ELSE Commits([Db EXCEPT !.grns[grn_id].status = "cancelled"])

\* None in a weight column of dispatch_notes (below every weight a
\* weighment can record).
NoWeight == -(MaxGross + 1)

\* POST /dispatch
create_dispatch(now) ==
    LET n == get_next_sequence(seqs["dispatch"], "DSP", TRUE, now)
    IN  Commits([Db EXCEPT
            !.seqs["dispatch"] = n.row,
            !.dispatches = Append(@, [dispatch_number |-> n.number,
                                      status |-> "draft",
                                      gross_weight_kg |-> NoWeight,
                                      tare_weight_kg |-> NoWeight,
                                      net_weight_kg |-> NoWeight,
                                      line_items |-> <<>>])])

\* POST /dispatch/{id}/weighment: made on a dispatch in any status.
record_dispatch_weighment(dispatch_id, gross_weight_kg, tare_weight_kg) ==
    IF dispatch_id \notin DOMAIN dispatches THEN Reject("NotFound")
    ELSE Commits([Db EXCEPT
            !.dispatches[dispatch_id].gross_weight_kg = gross_weight_kg,
            !.dispatches[dispatch_id].tare_weight_kg = tare_weight_kg,
            !.dispatches[dispatch_id].net_weight_kg =
                gross_weight_kg - tare_weight_kg])

\* The line items of a dispatch that name the lot.
LinesOfLot(line_items, stock_lot_id) ==
    {i \in DOMAIN line_items : line_items[i].stock_lot_id = stock_lot_id}

\* POST /dispatch/{id}/line-items
add_dispatch_line_item(dispatch_id, stock_lot_id, raw_weight) ==
    IF dispatch_id \notin DOMAIN dispatches THEN Reject("NotFound")
    ELSE IF dispatches[dispatch_id].status # "draft" THEN Reject("BadRequest")
    ELSE IF stock_lot_id \notin DOMAIN lots THEN Reject("NotFound")
    ELSE IF ~lots[stock_lot_id].is_active THEN Reject("BadRequest")
    ELSE IF lots[stock_lot_id].is_blocked THEN Reject("BadRequest")
    ELSE IF lots[stock_lot_id].qa_status \notin {"approved", "conditional"}
    THEN Reject("BadRequest")
    ELSE LET weight_kg == round_precision(raw_weight)
             line_items == dispatches[dispatch_id].line_items
             same == LinesOfLot(line_items, stock_lot_id)
         IN  IF same # {}
             THEN LET existing == CHOOSE i \in same : \A j \in same : i <= j
                      total_weight ==
                          line_items[existing].dispatched_weight_kg + weight_kg
                  IN  IF total_weight > lots[stock_lot_id].current_weight_kg
                      THEN Reject("BadRequest")
                      ELSE Commits([Db EXCEPT
                              !.dispatches[dispatch_id].line_items[existing]
                                  .dispatched_weight_kg = total_weight])
             ELSE IF weight_kg > lots[stock_lot_id].current_weight_kg
             THEN Reject("BadRequest")
             ELSE Commits([Db EXCEPT !.dispatches[dispatch_id].line_items =
                     Append(@, [stock_lot_id |-> stock_lot_id,
                                dispatched_weight_kg |-> weight_kg])])

\* POST /dispatch/{id}/auto-pick: the query hands back the lots in the
\* given order; each pick becomes a line item of its own, its weight written
\* to the Numeric(15,3) column dispatched_weight_kg.
auto_pick_material(dispatch_id, material_id, required, loc, order, tie) ==
    IF dispatch_id \notin DOMAIN dispatches THEN Reject("NotFound")
    ELSE IF dispatches[dispatch_id].status # "draft" THEN Reject("BadRequest")
    ELSE LET plan == get_lots_for_fifo_pick(lots, order, required)
         IN  IF plan.err # "ok" THEN Reject(plan.err)
             ELSE Commits([Db EXCEPT !.dispatches[dispatch_id].line_items =
                     @ \o [i \in DOMAIN plan.picks |->
                             [stock_lot_id |-> plan.picks[i].lot,
                              dispatched_weight_kg |->
                                  Numeric3(plan.picks[i].weight, tie)]]])

\* DELETE /dispatch/{id}/line-items/{line_item_id}
remove_dispatch_line_item(dispatch_id, line_item_id) ==
    IF dispatch_id \notin DOMAIN dispatches THEN Reject("NotFound")
    ELSE IF dispatches[dispatch_id].status # "draft" THEN Reject("BadRequest")
    ELSE IF line_item_id \notin DOMAIN dispatches[dispatch_id].line_items
    THEN Reject("NotFound")
    ELSE LET line_items == dispatches[dispatch_id].line_items
         IN  Commits([Db EXCEPT !.dispatches[dispatch_id].line_items =
                 SubSeq(line_items, 1, line_item_id - 1)
                 \o SubSeq(line_items, line_item_id + 1, Len(line_items))])

\* POST /dispatch/{id}/submit
submit_dispatch(dispatch_id) ==
    IF dispatch_id \notin DOMAIN dispatches THEN Reject("NotFound")
    ELSE IF dispatches[dispatch_id].status # "draft" THEN Reject("BadRequest")
    ELSE IF no_line_items(dispatches[dispatch_id]) THEN Reject("BadRequest")
    ELSE Commits([Db EXCEPT !.dispatches[dispatch_id].status = "submitted"])

\* approve_dispatch, the loop: consume_from_lot for each line item in turn,
\* in one session; db holds what the session has flushed so far, and the
\* loop ends at the first call that raises.
RECURSIVE consume_lines(_, _, _, _)
consume_lines(db, dispatch_id, line_items, now) ==
    IF line_items = <<>> \/ db.err # "ok" THEN db
    ELSE LET l == Head(line_items).stock_lot_id
         IN  IF l \notin DOMAIN db.lots THEN [db EXCEPT !.err = "NotFound"]
             ELSE LET res == consume_from_lot(db.lots[l],
                                 ToRaw(Head(line_items).dispatched_weight_kg),
                                 "dispatch", dispatch_id)
                      n == get_next_sequence(db.seqs["movement"], "MOV", TRUE,
                                             now)
                      m == res.movs[1]
                  IN  IF res.err # "ok" THEN [db EXCEPT !.err = res.err]
                      ELSE consume_lines(
                          [db EXCEPT
                              !.lots[l] = res.lot,
                              !.seqs["movement"] = n.row,
                              !.movements = Append(@,
                                 [movement_number |-> n.number,
                                  stock_lot_id |-> l,
                                  movement_type |-> m.movement_type,
                                  weight_change_kg |-> m.weight_change_kg,
                                  weight_before_kg |-> m.weight_before_kg,
                                  weight_after_kg |-> m.weight_after_kg,
                                  from_location_id |-> m.from_location_id,
                                  to_location_id |-> m.to_location_id,
                                  reference_type |-> m.reference_type,
                                  reference_id |-> m.reference_id,
                                  created_by |-> m.created_by,
                                  approved_by |-> m.approved_by])],
                          dispatch_id, Tail(line_items), now)

\* An approval that answers the error and keeps what its session flushed.
approval_failed_NoRollback(db) == db

\* A rollback that restores the tables but not the number_sequences rows.
approval_failed_KeepsNumbers(db) == [Reject(db.err) EXCEPT !.seqs = db.seqs]

\* approve_dispatch, "except ...: db.rollback()".
approval_failed(db) == Reject(db.err)

\* What the commit of an approval checks: the CHECK constraints of
\* stock_lots and the unique movement numbers.
commit_ok(db) ==
    /\ \A i \in DOMAIN db.lots : CheckConstraints(db.lots[i])
    /\ \A i, j \in DOMAIN db.movements :
          db.movements[i].movement_number = db.movements[j].movement_number
              => i = j

\* POST /dispatch/{id}/approve
approve_dispatch(dispatch_id, now) ==
    IF dispatch_id \notin DOMAIN dispatches THEN Reject("NotFound")
    ELSE IF dispatches[dispatch_id].status # "submitted"
    THEN Reject("BadRequest")
    ELSE LET db == consume_lines(Commits(Db), dispatch_id,
                                 dispatches[dispatch_id].line_items, now)
         IN  IF db.err # "ok" THEN approval_failed(db)
             ELSE IF ~commit_ok(db)
             THEN approval_failed([db EXCEPT !.err = "IntegrityError"])
             ELSE [db EXCEPT !.dispatches[dispatch_id].status = "approved"]

\* The inputs of the requests below.
GrnIds == 1..MaxGrns
LineIds == 1..MaxLines
Inspections ==
    {<<>>} \cup {<<[line_item_id |-> i, status |-> qa]>> :
                    i \in LineIds, qa \in QAStatus}

\* The caps of the model on the tables a request may commit, the tables
\* grn_line_items and dispatch_line_items among them.
WithinCaps(db) ==
    /\ Len(db.lots) <= MaxLots
    /\ Len(db.movements) <= MaxMov
    /\ Len(db.grns) <= MaxGrns
    /\ Len(db.dispatches) <= MaxDispatches
    /\ SumSeq([g \in DOMAIN db.grns |-> Len(db.grns[g].line_items)])
          <= MaxLines
    /\ SumSeq([d \in DOMAIN db.dispatches |->
                  Len(db.dispatches[d].line_items)]) <= MaxLines

\* One request served from its first query to its answer.
Serve(op, out) ==
    /\ out.err = "ok" => WithinCaps(out)
    /\ lots' = out.lots
    /\ movements' = out.movements
    /\ seqs' = out.seqs
    /\ grns' = out.grns
    /\ dispatches' = out.dispatches
    /\ result' = [op |-> op, err |-> out.err]
    /\ UNCHANGED <<current_year, backend, txn, locks>>

CreateGrn == Serve("create_grn", create_grn(current_year))

AddLineItem(g, material_id, raw) ==
    Serve("add_line_item", add_line_item(g, material_id, raw))

RecordWeighment(g, gross, tare) ==
    Serve("record_weighment", record_weighment(g, gross, tare, current_year))

SubmitGrn(g) == Serve("submit_grn", submit_grn(g))

RecordQaInspection(g, inspections) ==
    Serve("record_qa_inspection", record_qa_inspection(g, inspections))

ApproveGrn(g, location_id) ==
    Serve("approve_grn", approve_grn(g, location_id, current_year))

CancelGrn(g) == Serve("cancel_grn", cancel_grn(g))

CreateDispatch == Serve("create_dispatch", create_dispatch(current_year))

AddDispatchLineItem(d, l, raw) ==
    Serve("add_dispatch_line_item", add_dispatch_line_item(d, l, raw))

AutoPickMaterial(d, material_id, required, location_id, order, tie) ==
    Serve("auto_pick_material",
          auto_pick_material(d, material_id, required, location_id, order,
                             tie))

RemoveDispatchLineItem(d, i) ==
    Serve("remove_dispatch_line_item", remove_dispatch_line_item(d, i))

RecordDispatchWeighment(d, gross, tare) ==
    Serve("record_dispatch_weighment",
          record_dispatch_weighment(d, gross, tare))

SubmitDispatch(d) == Serve("submit_dispatch", submit_dispatch(d))

ApproveDispatch(d) ==
    Serve("approve_dispatch", approve_dispatch(d, current_year))

InitDocs ==
    /\ lots = <<>>
    /\ movements = <<>>
    /\ seqs = [n \in SeqNames |-> NoRow]
    /\ current_year = Year0
    /\ backend = "sqlite"
    /\ result = [op |-> "none", err |-> "ok"]
    /\ txn = [p \in Procs |-> Idle]
    /\ locks = [k \in LockNames |-> 0]
    /\ grns = <<>>
    /\ dispatches = <<>>

NextDocs ==
    \/ CreateGrn
    \/ \E g \in GrnIds, mat \in InboundMaterials, raw \in LineWeights :
          AddLineItem(g, mat, raw)
    \/ \E g \in GrnIds, gross \in 1..MaxGross, tare \in 0..MaxGross :
          RecordWeighment(g, gross, tare)
    \/ \E g \in GrnIds : SubmitGrn(g)
    \/ \E g \in GrnIds, inspections \in Inspections :
          RecordQaInspection(g, inspections)
    \/ \E g \in GrnIds, loc \in InboundLocations : ApproveGrn(g, loc)
    \/ \E g \in GrnIds : CancelGrn(g)
    \/ Len(dispatches) < MaxOpen /\ CreateDispatch
    \/ \E d \in DispatchIds, l \in LotIds, raw \in LineWeights :
          AddDispatchLineItem(d, l, raw)
    \/ \E d \in DispatchIds, mat \in InboundMaterials,
          required \in LineWeights :
          \E order \in FifoOrders(lots, mat, NoLocation),
             tie \in TieFns(backend, {}) :
             AutoPickMaterial(d, mat, required, NoLocation, order, tie)
    \/ \E d \in DispatchIds, i \in LineIds : RemoveDispatchLineItem(d, i)
    \/ \E d \in DispatchIds : SubmitDispatch(d)
    \/ \E d \in DispatchIds : ApproveDispatch(d)

SpecDocs == InitDocs /\ [][NextDocs]_vars

\* ------------------------------------------ dispatch of the received stock
\* The tables after one GRN with the given line items, all inspected, was
\* approved into location_id at time now: what create_grn, add_line_item,
\* record_weighment, submit_grn, record_qa_inspection and approve_grn leave.
ReceivedTables(line_items, location_id, now) ==
    LET res == receive_lines(line_items, location_id, now)
        n == Len(res.new_lots)
        lot_calls == SeqCalls(NoRow, "LOT", now, n)
        mov_calls == SeqCalls(NoRow, "MOV", now, n)
        grn_call == get_next_sequence(NoRow, "GRN", TRUE, now)
    IN  [lots |-> [i \in 1..n |->
                      [lot_number |-> lot_calls[i].number] @@ res.new_lots[i]],
         movements |-> [i \in 1..n |->
                      [movement_number |-> mov_calls[i].number,
                       stock_lot_id |-> i,
                       movement_type |-> res.movs[i].movement_type,
                       weight_change_kg |-> res.movs[i].weight_change_kg,
                       weight_before_kg |-> res.movs[i].weight_before_kg,
                       weight_after_kg |-> res.movs[i].weight_after_kg,
                       from_location_id |-> res.movs[i].from_location_id,
                       to_location_id |-> res.movs[i].to_location_id,
                       reference_type |-> res.movs[i].reference_type,
                       reference_id |-> res.movs[i].reference_id,
                       created_by |-> res.movs[i].created_by,
                       approved_by |-> res.movs[i].approved_by]],
         seqs |-> [s \in SeqNames |->
                      IF s = "lot" THEN lot_calls[n].row
                      ELSE IF s = "movement" THEN mov_calls[n].row
                      ELSE IF s = "grn" THEN grn_call.row
                      ELSE NoRow],
         grns |-> <<[grn_number |-> grn_call.number, status |-> "approved",
                     net_weight_kg |-> MaxGross, weighment_time |-> now,
                     line_items |-> line_items]>>]

\* The line items of the GRN received before the dispatches start.
ReceivedLines ==
    UNION {[1..n -> [grn_id : InboundGrns,
                     material_id : InboundMaterials,
                     weight_kg : 1..MaxWeight,
                     qa_status : {"approved"}]] :
              n \in 1..MaxLots}

InitDispatch ==
    /\ \E line_items \in ReceivedLines, loc \in InboundLocations :
          LET t == ReceivedTables(line_items, loc, Year0)
          IN  /\ lots = t.lots
              /\ movements = t.movements
              /\ seqs = t.seqs
              /\ grns = t.grns
    /\ current_year = Year0
    /\ backend = "sqlite"
    /\ result = [op |-> "none", err |-> "ok"]
    /\ txn = [p \in Procs |-> Idle]
    /\ locks = [k \in LockNames |-> 0]
    /\ dispatches = <<>>

NextDispatch ==
    \/ CreateDispatch
    \/ \E d \in DispatchIds, mat \in InboundMaterials,
          required \in LineWeights :
          \E order \in FifoOrders(lots, mat, NoLocation),
             tie \in TieFns(backend, {}) :
             AutoPickMaterial(d, mat, required, NoLocation, order, tie)
    \/ \E d \in DispatchIds : SubmitDispatch(d)
    \/ \E d \in DispatchIds : ApproveDispatch(d)
    \/ \E l \in LotIds, w \in 1..MaxWeight : Consume(l, ToRaw(w))
    \/ \E l \in LotIds : BlockLot(l)

SpecDispatch == InitDispatch /\ [][NextDispatch]_vars

\* --------------------------------------- dispatches approved concurrently
\* Worker processes approve dispatches of one line item while others do:
\* approve_dispatch runs in the steps of a consume request (above), with
\*   BeginApprove   SELECT ... FOR UPDATE of the dispatch, the status check,
\*                  then consume_from_lot up to its checks
\*   CommitApprove  the rest of consume_from_lot, the status update, COMMIT
\* Planning requests (create, auto-pick, submit) are served while no approval
\* is running.

BeginApprove(p, d) ==
    /\ txn[p].pc = "idle"
    /\ d \in DOMAIN dispatches
    /\ Len(dispatches[d].line_items) = 1
    /\ Len(movements) + InFlight < MaxMov
    /\ LET line == dispatches[d].line_items[1]
           l == line.stock_lot_id
           res == consume_from_lot(lots[l],
                                   ToRaw(line.dispatched_weight_kg),
                                   "dispatch", d)
       IN  /\ backend = "postgres" =>
                 locks[<<"dispatch", d>>] = 0 /\ locks[<<"lot", l>>] = 0
           /\ IF dispatches[d].status # "submitted"
              THEN /\ result' = [op |-> "approve_dispatch",
                                 err |-> "BadRequest"]
                   /\ UNCHANGED <<txn, locks>>
              ELSE IF res.err # "ok"
              THEN /\ result' = [op |-> "approve_dispatch", err |-> res.err]
                   /\ UNCHANGED <<txn, locks>>
              ELSE /\ txn' = [txn EXCEPT ![p] =
                                 [pc |-> "locked", op |-> "approve_dispatch",
                                  lot_id |-> l, loaded |-> lots[l],
                                  res |-> res, seen |-> NoRow,
                                  number |-> <<>>, dispatch_id |-> d]]
                   /\ locks' = IF backend = "postgres"
                               THEN [locks EXCEPT ![<<"dispatch", d>>] = p,
                                                  ![<<"lot", l>>] = p]
                               ELSE locks
                   /\ UNCHANGED result
    /\ UNCHANGED <<lots, movements, seqs, current_year, backend, grns,
                   dispatches>>

CommitApprove(p) ==
    /\ txn[p].pc = "flushed"
    /\ LET pr == Persist(txn[p].lot_id, txn[p].loaded, txn[p].res,
                         seqs["lot"], txn[p].seen, current_year)
       IN  /\ lots' = pr.lots
           /\ movements' = pr.movements
           /\ seqs' = pr.seqs
           /\ result' = [op |-> txn[p].op, err |-> pr.err]
           /\ dispatches' =
                 IF pr.err = "ok"
                 THEN [dispatches EXCEPT
                          ![txn[p].dispatch_id].status = "approved"]
                 ELSE dispatches
    /\ txn' = [txn EXCEPT ![p] = Idle]
    /\ locks' = Release(p)
    /\ UNCHANGED <<current_year, backend, grns>>

InitRace ==
    /\ \E line_items \in {x \in ReceivedLines : Len(x) = 1},
          loc \in InboundLocations :
          LET t == ReceivedTables(line_items, loc, Year0)
          IN  /\ lots = t.lots
              /\ movements = t.movements
              /\ seqs = t.seqs
              /\ grns = t.grns
    /\ current_year = Year0
    /\ backend \in Backends
    /\ result = [op |-> "none", err |-> "ok"]
    /\ txn = [p \in Procs |-> Idle]
    /\ locks = [k \in LockNames |-> 0]
    /\ dispatches = <<>>

NextRace ==
    \/ InFlight = 0 /\ CreateDispatch
    \/ \E d \in DispatchIds, mat \in InboundMaterials,
          required \in LineWeights :
          \E order \in FifoOrders(lots, mat, NoLocation),
             tie \in TieFns(backend, {}) :
             /\ InFlight = 0
             /\ AutoPickMaterial(d, mat, required, NoLocation, order, tie)
    \/ \E d \in DispatchIds : InFlight = 0 /\ SubmitDispatch(d)
    \/ \E p \in Procs, d \in DispatchIds : BeginApprove(p, d)
    \/ \E p \in Procs : SelectSequence(p)
    \/ \E p \in Procs : Flush(p)
    \/ \E p \in Procs : CommitApprove(p)

SpecRace == InitRace /\ [][NextRace]_vars

\* ------------------------------------------------------------- lock waits
\* A consume followed from the arrival of the request: it waits at the
\* SELECT ... FOR UPDATE of the lot until the row lock is free, and at that
\* of the number_sequences row likewise.  The engine is created with no
\* lock or statement timeout and with_for_update() asks for no nowait, so on
\* PostgreSQL a wait lasts as long as the lock is held; nothing bounds the
\* time a worker takes between its SELECT and its COMMIT.  On SQLite the
\* only wait is the driver's wait for the database write lock, which gives
\* up with OperationalError ("database is locked").

\* POST /consume received by worker p.
Arrive(p, l, raw) ==
    /\ txn[p].pc = "idle"
    /\ l \in DOMAIN lots
    /\ Len(movements) + InFlight < MaxMov
    /\ txn' = [txn EXCEPT ![p] = [pc |-> "waiting", op |-> "consume",
                                  lot_id |-> l, raw |-> raw]]
    /\ UNCHANGED <<lots, movements, seqs, current_year, backend, result,
                 locks, grns, dispatches>>

\* The SELECT ... FOR UPDATE of the lot returns, and the call runs its
\* checks on the lot it read.
Acquire(p) ==
    /\ txn[p].pc = "waiting"
    /\ backend = "postgres" => locks[<<"lot", txn[p].lot_id>>] = 0
    /\ LET l == txn[p].lot_id
           res == consume_from_lot(lots[l], txn[p].raw, "none", NoReference)
       IN  IF res.err # "ok"
           THEN /\ result' = [op |-> "consume", err |-> res.err]
                /\ txn' = [txn EXCEPT ![p] = Idle]
                /\ UNCHANGED locks
           ELSE /\ txn' = [txn EXCEPT ![p] =
                              [pc |-> "locked", op |-> "consume",
                               lot_id |-> l, loaded |-> lots[l],
                               res |-> res, seen |-> NoRow,
                               number |-> <<>>]]
                /\ locks' = IF backend = "postgres"
                            THEN [locks EXCEPT ![<<"lot", l>>] = p]
                            ELSE locks
                /\ UNCHANGED result
    /\ UNCHANGED <<lots, movements, seqs, current_year, backend, grns,
                 dispatches>>

\* sqlite3's busy timeout runs out while another connection holds the write
\* lock: the UPDATE raises OperationalError and the session is closed.
SqliteBusy(p) ==
    /\ backend = "sqlite"
    /\ txn[p].pc = "seqread"
    /\ locks[<<"db", 0>>] \notin {0, p}
    /\ result' = [op |-> txn[p].op, err |-> "OperationalError"]
    /\ txn' = [txn EXCEPT ![p] = Idle]
    /\ locks' = Release(p)
    /\ UNCHANGED <<lots, movements, seqs, current_year, backend, grns,
                 dispatches>>

\* Worker p stops between its SELECT and its COMMIT, its transaction open.
Stall(p) ==
    /\ txn[p].pc \in {"locked", "seqread", "flushed"}
    /\ txn' = [txn EXCEPT ![p].pc = "stalled"]
    /\ UNCHANGED <<lots, movements, seqs, current_year, backend, result,
                 locks, grns, dispatches>>

NextBlocked ==
    \/ \E p \in Procs, l \in LotIds, w \in 1..MaxWeight :
          Arrive(p, l, ToRaw(w))
    \/ \E p \in Procs : Acquire(p)
    \/ \E p \in Procs : SelectSequence(p)
    \/ \E p \in Procs : Flush(p)
    \/ \E p \in Procs : Commit(p)
    \/ \E p \in Procs : SqliteBusy(p)
    \/ \E p \in Procs : Stall(p)

\* The database grants a free lock to the request waiting for it and a
\* worker that has not stopped runs on to its commit.
FairBlocked ==
    \A p \in Procs :
       /\ WF_vars(Acquire(p))
       /\ WF_vars(SelectSequence(p))
       /\ WF_vars(Flush(p))
       /\ WF_vars(Commit(p))
       /\ WF_vars(SqliteBusy(p))

SpecBlocked == InitRace /\ [][NextBlocked]_vars /\ FairBlocked

\* ------------------------------------------- approvals line by line
\* approve_dispatch followed through the statements of its session, beside
\* other approvals and POST /consume requests:
\*   ApproveStart   SELECT ... FOR UPDATE of the dispatch, the status check
\*   ConsumeStart   POST /consume received
\*   LockLine       consume_from_lot for the next line item: SELECT ... FOR
\*                  UPDATE of the lot, then the checks of the call
\*   NumberLine     get_next_sequence (the SELECT ... FOR UPDATE of the
\*                  "movement" row and the UPDATE of db.flush(), taken as
\*                  one step), db.add(movement) and the update of the lot
\*   FinishLines    the status update and COMMIT
\* A POST /consume is a session of one line.  PostgreSQL holds every row
\* lock to the end of the transaction, and aborts one transaction of a
\* cycle of waits with "deadlock detected"; SQLite locks nothing before
\* the first write.

\* The row a movement of the session becomes.
MovementRow(m, movement_number, stock_lot_id) ==
    [movement_number |-> movement_number, stock_lot_id |-> stock_lot_id,
     movement_type |-> m.movement_type,
     weight_change_kg |-> m.weight_change_kg,
     weight_before_kg |-> m.weight_before_kg,
     weight_after_kg |-> m.weight_after_kg,
     from_location_id |-> m.from_location_id,
     to_location_id |-> m.to_location_id,
     reference_type |-> m.reference_type,
     reference_id |-> m.reference_id,
     created_by |-> m.created_by, approved_by |-> m.approved_by]

\* A session at its start: no lot loaded, nothing pending.
Session(op, dispatch_id, todo) ==
    [pc |-> "lines", op |-> op, dispatch_id |-> dispatch_id, todo |-> todo,
     loaded |-> <<>>, objs |-> <<>>, movs |-> <<>>, seq |-> NoRow,
     res |-> <<>>]

\* The exception e ends the request of worker p: rollback, locks released.
Abort(p, e) ==
    /\ result' = [op |-> txn[p].op, err |-> e]
    /\ txn' = [txn EXCEPT ![p] = Idle]
    /\ locks' = Release(p)

ApproveStart(p, d) ==
    /\ txn[p].pc = "idle"
    /\ d \in DOMAIN dispatches
    /\ backend = "postgres" => locks[<<"dispatch", d>>] = 0
    /\ IF dispatches[d].status # "submitted"
       THEN /\ result' = [op |-> "approve_dispatch", err |-> "BadRequest"]
            /\ UNCHANGED <<txn, locks>>
       ELSE /\ txn' = [txn EXCEPT ![p] =
                          Session("approve_dispatch", d,
                                  dispatches[d].line_items)]
            /\ locks' = IF backend = "postgres"
                        THEN [locks EXCEPT ![<<"dispatch", d>>] = p]
                        ELSE locks
            /\ UNCHANGED result
    /\ UNCHANGED <<lots, movements, seqs, current_year, backend, grns,
                 dispatches>>

ConsumeStart(p, l, weight_kg) ==
    /\ txn[p].pc = "idle"
    /\ l \in DOMAIN lots
    /\ Len(movements) < MaxMov
    /\ txn' = [txn EXCEPT ![p] =
                  Session("consume", 0,
                          <<[stock_lot_id |-> l,
                             dispatched_weight_kg |-> weight_kg]>>)]
    /\ UNCHANGED <<lots, movements, seqs, current_year, backend, result,
                 locks, grns, dispatches>>

\* The lock the next statement of worker p asks for.
WaitsFor(p) ==
    IF txn[p].pc = "lines" /\ txn[p].todo # <<>>
    THEN <<"lot", Head(txn[p].todo).stock_lot_id>>
    ELSE IF txn[p].pc = "line_locked"
    THEN (IF backend = "sqlite" THEN <<"db", 0>> ELSE <<"seq", "movement">>)
    ELSE <<"none", 0>>

\* Worker p waits for a lock another worker holds.
Blocked(p) ==
    /\ WaitsFor(p) \in LockNames
    /\ locks[WaitsFor(p)] \notin {0, p}

LockLine(p) ==
    /\ txn[p].pc = "lines"
    /\ txn[p].todo # <<>>
    /\ backend = "postgres" => ~Blocked(p)
    /\ LET line == Head(txn[p].todo)
           l == line.stock_lot_id
           obj == IF l \in DOMAIN txn[p].objs THEN txn[p].objs[l]
                  ELSE lots[l]
           res == IF txn[p].op = "consume"
                  THEN consume_from_lot(obj, ToRaw(line.dispatched_weight_kg),
                                        "none", NoReference)
                  ELSE consume_from_lot(obj, ToRaw(line.dispatched_weight_kg),
                                        "dispatch", txn[p].dispatch_id)
       IN  IF res.err # "ok" THEN Abort(p, res.err)
           ELSE /\ txn' = [txn EXCEPT
                              ![p].pc = "line_locked",
                              ![p].res = res,
                              ![p].loaded =
                                  IF l \in DOMAIN @ THEN @
                                  ELSE (l :> lots[l]) @@ @]
                /\ locks' = IF backend = "postgres"
                            THEN [locks EXCEPT ![<<"lot", l>>] = p]
                            ELSE locks
                /\ UNCHANGED result
    /\ UNCHANGED <<lots, movements, seqs, current_year, backend, grns,
                 dispatches>>

NumberLine(p) ==
    /\ txn[p].pc = "line_locked"
    /\ ~Blocked(p)
    /\ LET l == Head(txn[p].todo).stock_lot_id
           seen == IF txn[p].seq # NoRow THEN txn[p].seq
                   ELSE seqs["movement"]
           n == get_next_sequence(seen, "MOV", TRUE, current_year)
       IN  txn' = [txn EXCEPT
                      ![p].pc = "lines",
                      ![p].todo = Tail(@),
                      ![p].seq = n.row,
                      ![p].objs = (l :> txn[p].res.lot) @@ @,
                      ![p].movs = Append(@, MovementRow(txn[p].res.movs[1],
                                                        n.number, l))]
    /\ locks' = [locks EXCEPT ![WaitsFor(p)] = p]
    /\ UNCHANGED <<lots, movements, seqs, current_year, backend, result,
                 grns, dispatches>>

FinishLines(p) ==
    /\ txn[p].pc = "lines"
    /\ txn[p].todo = <<>>
    /\ LET new_lots ==
               [l \in DOMAIN lots |->
                   IF l \in DOMAIN txn[p].objs
                   THEN UpdateRow(lots[l], txn[p].loaded[l], txn[p].objs[l])
                   ELSE lots[l]]
           new_movements == InsertMovements(movements, txn[p].movs)
           db == [Db EXCEPT !.lots = new_lots, !.movements = new_movements]
       IN  IF ~commit_ok(db)
           THEN /\ result' = [op |-> txn[p].op, err |-> "IntegrityError"]
                /\ UNCHANGED <<lots, movements, seqs, dispatches>>
           ELSE /\ result' = [op |-> txn[p].op, err |-> "ok"]
                /\ lots' = new_lots
                /\ movements' = new_movements
                /\ seqs' = [seqs EXCEPT !["movement"] = txn[p].seq]
                /\ dispatches' =
                      IF txn[p].op = "approve_dispatch"
                      THEN [dispatches EXCEPT
                               ![txn[p].dispatch_id].status = "approved"]
                      ELSE dispatches
    /\ txn' = [txn EXCEPT ![p] = Idle]
    /\ locks' = Release(p)
    /\ UNCHANGED <<current_year, backend, grns>>

\* Two workers each wait for a lock the other holds.
WaitCycle(p, q) ==
    /\ p # q
    /\ Blocked(p) /\ locks[WaitsFor(p)] = q
    /\ Blocked(q) /\ locks[WaitsFor(q)] = p

\* PostgreSQL's deadlock detector ends the statement worker p waits in.
DeadlockDetected(p) ==
    /\ backend = "postgres"
    /\ \E q \in Procs : WaitCycle(p, q)
    /\ Abort(p, "DeadlockDetected")
    /\ UNCHANGED <<lots, movements, seqs, current_year, backend, grns,
                 dispatches>>

\* sqlite3's busy timeout runs out at the write of the "movement" row.
LinesBusy(p) ==
    /\ backend = "sqlite"
    /\ txn[p].pc = "line_locked"
    /\ Blocked(p)
    /\ Abort(p, "OperationalError")
    /\ UNCHANGED <<lots, movements, seqs, current_year, backend, grns,
                 dispatches>>

InitLines ==
    /\ \E line_items \in {x \in ReceivedLines :
                              /\ Len(x) = MaxLots
                              /\ \A i \in DOMAIN x :
                                    x[i].weight_kg = MaxWeight},
          loc \in InboundLocations :
          LET t == ReceivedTables(line_items, loc, Year0)
          IN  /\ lots = t.lots
              /\ movements = t.movements
              /\ seqs = t.seqs
              /\ grns = t.grns
    /\ current_year = Year0
    /\ backend \in Backends
    /\ result = [op |-> "none", err |-> "ok"]
    /\ txn = [p \in Procs |-> Idle]
    /\ locks = [k \in LockNames |-> 0]
    /\ dispatches = <<>>

NextLines ==
    \/ InFlight = 0 /\ Len(dispatches) < MaxOpen /\ CreateDispatch
    \/ \E d \in DispatchIds, l \in LotIds :
          InFlight = 0 /\ AddDispatchLineItem(d, l, ToRaw(1))
    \/ \E d \in DispatchIds : InFlight = 0 /\ SubmitDispatch(d)
    \/ \E p \in Procs, d \in DispatchIds : ApproveStart(p, d)
    \/ \E p \in Procs, l \in LotIds : ConsumeStart(p, l, 1)
    \/ \E p \in Procs : LockLine(p)
    \/ \E p \in Procs : NumberLine(p)
    \/ \E p \in Procs : FinishLines(p)
    \/ \E p \in Procs : DeadlockDetected(p)
    \/ \E p \in Procs : LinesBusy(p)

SpecLines == InitLines /\ [][NextLines]_vars

\* ------------------------------------------- first calls of a sequence
\* POST /dispatch served by several workers on a database whose "dispatch"
\* row of number_sequences may not exist yet.  get_next_sequence runs in the
\* steps at which the session talks to the database:
\*   BeginCreateDispatch   SELECT ... FOR UPDATE of the row; a row that is
\*                         absent is not locked, on either database
\*   FlushCounter          db.flush(): the INSERT of the row the call made
\*                         (sequence_name is unique), or the UPDATE of the
\*                         row it read
\*   CommitCreateDispatch  INSERT of the dispatch note
\*                         (dispatch_number is unique), COMMIT
\* An exception leaves the handler unhandled and the session is closed,
\* which rolls the transaction back.

Creating(p) == txn[p].pc \in {"counter_read", "counter_flushed"}

BeginCreateDispatch(p) ==
    /\ txn[p].pc = "idle"
    /\ Len(dispatches) + Cardinality({q \in Procs : Creating(q)})
          < MaxDispatches
    /\ (backend = "postgres" /\ seqs["dispatch"] # NoRow)
          => locks[<<"seq", "dispatch">>] = 0
    /\ txn' = [txn EXCEPT ![p] = [pc |-> "counter_read",
                                  op |-> "create_dispatch",
                                  seen |-> seqs["dispatch"],
                                  number |-> <<>>]]
    /\ locks' = IF backend = "postgres" /\ seqs["dispatch"] # NoRow
                THEN [locks EXCEPT ![<<"seq", "dispatch">>] = p] ELSE locks
    /\ UNCHANGED <<lots, movements, seqs, current_year, backend, result,
                 grns, dispatches>>

\* The lock the write of the counter row waits for: the database write lock
\* on SQLite, on PostgreSQL the row (for an INSERT, the index entry of the
\* sequence_name another transaction has inserted and not yet committed).
CounterLock == IF backend = "sqlite" THEN <<"db", 0>> ELSE <<"seq", "dispatch">>

FlushCounter(p) ==
    /\ txn[p].pc = "counter_read"
    /\ locks[CounterLock] \in {0, p}
    /\ IF txn[p].seen = NoRow /\ seqs["dispatch"] # NoRow
       THEN /\ result' = [op |-> txn[p].op, err |-> "IntegrityError"]
            /\ txn' = [txn EXCEPT ![p] = Idle]
            /\ locks' = Release(p)
       ELSE /\ txn' = [txn EXCEPT
                          ![p].pc = "counter_flushed",
                          ![p].number =
                              get_next_sequence(txn[p].seen, "DSP", TRUE,
                                                current_year)]
            /\ locks' = [locks EXCEPT ![CounterLock] = p]
            /\ UNCHANGED result
    /\ UNCHANGED <<lots, movements, seqs, current_year, backend, grns,
                 dispatches>>

CommitCreateDispatch(p) ==
    /\ txn[p].pc = "counter_flushed"
    /\ LET note == [create_dispatch(current_year).dispatches[
                        Len(dispatches) + 1]
                       EXCEPT !.dispatch_number = txn[p].number.number]
           taken == \E d \in DOMAIN dispatches :
                       dispatches[d].dispatch_number = note.dispatch_number
       IN  IF taken
           THEN /\ result' = [op |-> txn[p].op, err |-> "IntegrityError"]
                /\ UNCHANGED <<seqs, dispatches>>
           ELSE /\ result' = [op |-> txn[p].op, err |-> "ok"]
                /\ seqs' = [seqs EXCEPT !["dispatch"] = txn[p].number.row]
                /\ dispatches' = Append(dispatches, note)
    /\ txn' = [txn EXCEPT ![p] = Idle]
    /\ locks' = Release(p)
    /\ UNCHANGED <<lots, movements, current_year, backend, grns>>

\* sqlite3's busy timeout runs out at the write of the counter row.
CounterBusy(p) ==
    /\ backend = "sqlite"
    /\ txn[p].pc = "counter_read"
    /\ locks[<<"db", 0>>] \notin {0, p}
    /\ result' = [op |-> txn[p].op, err |-> "OperationalError"]
    /\ txn' = [txn EXCEPT ![p] = Idle]
    /\ locks' = Release(p)
    /\ UNCHANGED <<lots, movements, seqs, current_year, backend, grns,
                 dispatches>>

NextFirst ==
    \/ \E p \in Procs : BeginCreateDispatch(p)
    \/ \E p \in Procs : FlushCounter(p)
    \/ \E p \in Procs : CommitCreateDispatch(p)
    \/ \E p \in Procs : CounterBusy(p)
    \/ InFlight = 0 /\ Tick

SpecFirst == InitConc /\ [][NextFirst]_vars

\* ---------------------------------------------------- queries and reports
\* InventoryQueryService behind GET /summary, GET /aging-report and POST
\* /reconcile, and get_lots_for_fifo_pick.  A query handler, like a document
\* handler, is an operator from the committed tables to the tables it leaves
\* and the rows it answers.  The clock of the model counts years, and so do
\* age_days and days_threshold here.

NoMaterial == 0
NoQa == "any"

\* A handler answering rows with nothing written and nothing committed.
Answers(rows) == [err |-> "ok", rows |-> rows] @@ Db

\* get_stock_summary: the filters of the query (include_inactive = False).
summary_filter(lot, material_id, location_id, qa_status) ==
    /\ lot.is_active
    /\ material_id # NoMaterial => lot.material_id = material_id
    /\ location_id # NoLocation => lot.location_id = location_id
    /\ qa_status # NoQa => lot.qa_status = qa_status

\* InventoryQueryService.get_stock_summary: one row per material among the
\* lots that pass the filters (the rows as a set: the query has no ORDER BY).
get_stock_summary(material_id, location_id, qa_status) ==
    LET ids == {i \in DOMAIN lots :
                   summary_filter(lots[i], material_id, location_id,
                                  qa_status)}
        group(m) == {i \in ids : lots[i].material_id = m}
        dates(m) == {lots[i].received_date : i \in group(m)}
    IN  Answers({[material_id |-> m,
                  lot_count |-> Cardinality(group(m)),
                  total_weight_kg |->
                     SumSeq([i \in DOMAIN lots |->
                                IF i \in group(m)
                                THEN lots[i].current_weight_kg ELSE 0]),
                  oldest_lot_date |->
                     CHOOSE d \in dates(m) : \A e \in dates(m) : d <= e,
                  newest_lot_date |->
                     CHOOSE d \in dates(m) : \A e \in dates(m) : d >= e] :
                 m \in {lots[i].material_id : i \in ids}})

\* The orders in which the aging query may hand back the active lots:
\* ascending received_date, lots of one date in any order.
AgingOrders ==
    LET ids == {i \in DOMAIN lots : lots[i].is_active}
    IN  {o \in [1..Cardinality(ids) -> ids] :
            /\ \A i, j \in DOMAIN o : o[i] = o[j] => i = j
            /\ \A i, j \in DOMAIN o :
                  i < j => lots[o[i]].received_date
                              <= lots[o[j]].received_date}

\* InventoryQueryService.get_stock_aging_report at time now.
get_stock_aging_report(order, days_threshold, now) ==
    Answers([i \in DOMAIN order |->
                LET lot == lots[order[i]]
                IN  [lot_number |-> lot.lot_number,
                     current_weight_kg |-> lot.current_weight_kg,
                     received_date |-> lot.received_date,
                     age_days |-> now - lot.received_date,
                     is_old_stock |-> now - lot.received_date > days_threshold,
                     location_id |-> lot.location_id]])

\* get_lots_for_fifo_pick as a caller sees it: the plan, or the error raised.
fifo_plan(order, required) ==
    LET plan == get_lots_for_fifo_pick(lots, order, required)
    IN  IF plan.err # "ok" THEN Reject(plan.err) ELSE Answers(plan.picks)

\* A reconciliation that writes the physical weight to the lot and commits.
reconcile_physical_vs_system_Applying(lot_id, physical) ==
    IF lot_id \notin DOMAIN lots THEN Reject("NotFound")
    ELSE [err |-> "ok", rows |-> <<>>]
         @@ [Db EXCEPT !.lots[lot_id].current_weight_kg = Quantize(physical)]

\* InventoryQueryService.reconcile_physical_vs_system behind POST
\* /reconcile; physical is a raw weight, the tolerance 0.5 percent.
reconcile_physical_vs_system(lot_id, physical) ==
    IF lot_id \notin DOMAIN lots THEN Reject("NotFound")
    ELSE LET system == ToRaw(lots[lot_id].current_weight_kg)
             variance == physical - system
             size == IF variance < 0 THEN -variance ELSE variance
             within == system > 0 => 200 * size <= system
         IN  Answers([lot_number |-> lots[lot_id].lot_number,
                      system_weight_kg |-> system,
                      physical_weight_kg |-> physical,
                      variance_kg |-> variance,
                      within_tolerance |-> within,
                      requires_adjustment |-> ~within])

QueryOps == {"stock_summary", "aging_report", "fifo_pick", "reconcile"}

\* One query served: the response, and the tables as the handler leaves them.
Ask(op, request, out) ==
    /\ lots' = out.lots
    /\ movements' = out.movements
    /\ seqs' = out.seqs
    /\ grns' = out.grns
    /\ dispatches' = out.dispatches
    /\ result' = [op |-> op, err |-> out.err, request |-> request,
                  rows |-> IF out.err = "ok" THEN out.rows ELSE <<>>]
    /\ UNCHANGED <<current_year, backend, txn, locks>>

StockSummary(material_id, location_id, qa_status) ==
    Ask("stock_summary", <<material_id, location_id, qa_status>>,
        get_stock_summary(material_id, location_id, qa_status))

AgingReport(order, days_threshold) ==
    Ask("aging_report", <<days_threshold>>,
        get_stock_aging_report(order, days_threshold, current_year))

FifoPick(material_id, required, location_id, order) ==
    Ask("fifo_pick", <<material_id, required, location_id>>,
        fifo_plan(order, required))

Reconcile(lot_id, physical) ==
    Ask("reconcile", <<lot_id, physical>>,
        reconcile_physical_vs_system(lot_id, physical))

\* The line items of the GRN received before the queries start.
QueryLines ==
    UNION {[1..n -> [grn_id : InboundGrns, material_id : Materials,
                     weight_kg : {MaxWeight},
                     qa_status : {"approved"}]] : n \in 1..MaxLots}

InitQuery ==
    /\ \E line_items \in QueryLines, loc \in InboundLocations :
          LET t == ReceivedTables(line_items, loc, Year0)
          IN  /\ lots = t.lots
              /\ movements = t.movements
              /\ seqs = t.seqs
              /\ grns = t.grns
    /\ current_year = Year0
    /\ backend = "sqlite"
    /\ result = [op |-> "none", err |-> "ok"]
    /\ txn = [p \in Procs |-> Idle]
    /\ locks = [k \in LockNames |-> 0]
    /\ dispatches = <<>>

NextQuery ==
    \/ \E m \in {NoMaterial} \cup Materials, loc \in {NoLocation} \cup Locations,
          qa \in {NoQa, "approved"} : StockSummary(m, loc, qa)
    \/ \E order \in AgingOrders, days_threshold \in 0..MaxTicks :
          AgingReport(order, days_threshold)
    \/ \E m \in Materials, w \in 1..MaxWeight :
          \E order \in FifoOrders(lots, m, NoLocation) :
             FifoPick(m, ToRaw(w), NoLocation, order)
    \/ \E l \in LotIds, w \in 0..MaxWeight : Reconcile(l, ToRaw(w))
    \/ \E l \in LotIds, w \in 1..MaxWeight : Consume(l, ToRaw(w))
    \/ \E l \in LotIds, w \in 0..MaxWeight : Adjust(l, ToRaw(w), CurrentUser)
    \/ \E l \in LotIds, to \in Locations : Transfer(l, to)
    \/ Tick

SpecQuery == InitQuery /\ [][NextQuery]_vars

\* ------------------------------------------ documents with the weighbridge
\* The document endpoints of SpecDocs and the weighment of a dispatch.

NextSealed ==
    \/ NextDocs
    \/ \E d \in DispatchIds, gross \in 1..MaxGross, tare \in 0..MaxGross :
          RecordDispatchWeighment(d, gross, tare)

SpecSealed == InitDocs /\ [][NextSealed]_vars

\* --------------------------------------------- documents and ledger calls
\* The document endpoints and the ledger calls on the lots that the GRN
\* approvals created, one request at a time, with whole-gram weights.

WholeSplits == {<<>>} \cup {<<ToRaw(w)>> : w \in 0..MaxWeight}

NextOrigin ==
    \/ CreateGrn
    \/ \E g \in GrnIds, mat \in InboundMaterials, w \in 1..MaxWeight :
          AddLineItem(g, mat, ToRaw(w))
    \/ \E g \in GrnIds : RecordWeighment(g, MaxGross, 0)
    \/ \E g \in GrnIds : SubmitGrn(g)
    \/ \E g \in GrnIds, i \in LineIds, qa \in {"approved", "rejected"} :
          RecordQaInspection(g, <<[line_item_id |-> i, status |-> qa]>>)
    \/ \E g \in GrnIds, loc \in InboundLocations : ApproveGrn(g, loc)
    \/ \E g \in GrnIds : CancelGrn(g)
    \/ Len(dispatches) < MaxOpen /\ CreateDispatch
    \/ \E d \in DispatchIds, l \in LotIds, w \in 1..MaxWeight :
          AddDispatchLineItem(d, l, ToRaw(w))
    \/ \E d \in DispatchIds : SubmitDispatch(d)
    \/ \E l \in LotIds, w \in 1..MaxWeight : Consume(l, ToRaw(w))
    \/ \E l \in LotIds, w \in 0..MaxWeight :
          Adjust(l, ToRaw(w), CurrentUser)
    \/ \E l \in LotIds, to \in Locations : Transfer(l, to)
    \/ \E l \in LotIds, ws \in WholeSplits :
          \E tie \in TieFns(backend, {}) : Split(l, ws, tie)

SpecOrigin == InitDocs /\ [][NextOrigin]_vars

\* ================================================================ claims

\* The consumable state of a lot, as the data model states it.
Consumable(lot) ==
    lot.is_active /\ ~lot.is_blocked
    /\ lot.qa_status \in {"approved", "conditional"}

LastMovement == movements[Len(movements)]
Failed(op, e) == result = [op |-> op, err |-> e]
Tables == <<lots, movements, seqs>>

\* C1: in every reachable state every stock lot satisfies
\* 0 <= current_weight <= net_weight <= gross_weight.
C1_WeightBounds ==
    \A i \in DOMAIN lots :
        /\ 0 <= lots[i].current_weight_kg
        /\ lots[i].current_weight_kg <= lots[i].net_weight_kg
        /\ lots[i].net_weight_kg <= lots[i].gross_weight_kg

\* An adjust to more than the net weight was attempted on a lot that had
\* been drawn down, and was refused.
C1_Witness ==
    /\ Failed("adjust", "IntegrityError")
    /\ \E i \in DOMAIN lots :
          lots[i].current_weight_kg < lots[i].net_weight_kg

\* The committed movements of lot l, in commit order.
RECURSIVE MovementsOf(_, _)
MovementsOf(l, ms) ==
    IF ms = <<>> THEN <<>>
    ELSE (IF Head(ms).stock_lot_id = l THEN <<Head(ms)>> ELSE <<>>)
         \o MovementsOf(l, Tail(ms))

ChangesOf(l) ==
    LET ms == MovementsOf(l, movements)
    IN  SumSeq([i \in DOMAIN ms |-> ms[i].weight_change_kg])

\* C2: mutations run concurrently on one lot leave what running them one
\* after the other would leave: no update is lost, so the current weight of
\* every lot is what its committed movements add up to, and two consumes
\* never both succeed on stock that covers only one of them.
C2_NoLostUpdate ==
    \A l \in DOMAIN lots : lots[l].current_weight_kg = ChangesOf(l)

\* C3: for every lot its committed movements, in commit order, form an
\* unbroken chain: the first has weight_before = 0, each weight_before is the
\* weight_after of the one before, each weight_after = weight_before +
\* weight_change, and the lot's current_weight is the last weight_after.
C3_MovementChain ==
    \A l \in DOMAIN lots :
        LET ms == MovementsOf(l, movements)
        IN  /\ ms # <<>>
            /\ ms[1].weight_before_kg = 0
            /\ \A i \in 2..Len(ms) :
                  ms[i].weight_before_kg = ms[i - 1].weight_after_kg
            /\ \A i \in DOMAIN ms :
                  ms[i].weight_after_kg
                     = ms[i].weight_before_kg + ms[i].weight_change_kg
            /\ lots[l].current_weight_kg = ms[Len(ms)].weight_after_kg

\* C4: in every reachable state a lot whose current_weight is 0 has
\* is_active = FALSE.
C4_ZeroIsInactive ==
    \A i \in DOMAIN lots :
        lots[i].current_weight_kg = 0 => ~lots[i].is_active

\* The movement a successful consume of raw_taken (in raw units) on lot l
\* must have added, and the weight it must have left.
ConsumedExactly(l, raw_taken) ==
    /\ result' = [op |-> "consume", err |-> "ok"]
    /\ ToRaw(lots'[l].current_weight_kg)
         = ToRaw(lots[l].current_weight_kg) - raw_taken
    /\ Len(lots') = Len(lots)
    /\ Len(movements') = Len(movements) + 1
    /\ SubSeq(movements', 1, Len(movements)) = movements
    /\ LET m == movements'[Len(movements')]
       IN  /\ m.stock_lot_id = l
           /\ m.movement_type = "consumption"
           /\ ToRaw(m.weight_change_kg) = -raw_taken
           /\ m.weight_before_kg = lots[l].current_weight_kg
           /\ m.weight_after_kg = lots'[l].current_weight_kg

\* C5: for every consumable lot and every weight w <= current_weight, w being
\* the request weight as the ledger normalizes it (quantized to 0.001 kg),
\* consume succeeds, leaves current_weight - w and adds exactly one
\* consumption movement with weight_change = -w, weight_before the old
\* weight and weight_after the new weight.
C5_ConsumeQuantizedWeight ==
    [][\A l \in DOMAIN lots : \A raw \in RawWeights \ {0} :
          ( /\ Consumable(lots[l])
            /\ Quantize(raw) <= lots[l].current_weight_kg
            /\ Consume(l, raw) )
          => ConsumedExactly(l, ToRaw(Quantize(raw)))]_vars

\* A consume has succeeded and left part of the lot.
C5_Witness ==
    /\ Failed("consume", "ok")
    /\ LastMovement.movement_type = "consumption"
    /\ LastMovement.weight_change_kg < 0
    /\ LastMovement.weight_after_kg > 0

\* C6: consume(lot, w) with w > current_weight on a consumable lot, w being
\* the request weight as the ledger normalizes it (quantized to 0.001 kg),
\* always fails with InsufficientStock and leaves the lot, the movement log
\* and the number sequences unchanged.
C6_QuantizedOverdrawRejected ==
    [][\A l \in DOMAIN lots : \A raw \in RawWeights \ {0} :
          ( /\ Consumable(lots[l])
            /\ Quantize(raw) > lots[l].current_weight_kg
            /\ Consume(l, raw) )
          => /\ result' = [op |-> "consume", err |-> "InsufficientStock"]
             /\ UNCHANGED Tables]_vars

\* A consume was refused for lack of stock on the only lot, which is
\* consumable and still holds weight.
C6_Witness ==
    /\ Failed("consume", "InsufficientStock")
    /\ Len(lots) = 1
    /\ Consumable(lots[1])
    /\ lots[1].current_weight_kg > 0

\* C7: consume on a lot that is not consumable (inactive, blocked, or QA
\* status outside approved and conditional) fails with InvalidOperation
\* whatever the weight, also a weight above the stock, and changes nothing.
C7_IneligibleRejected ==
    [][\A l \in DOMAIN lots : \A raw \in RawWeights \ {0} :
          (~Consumable(lots[l]) /\ Consume(l, raw))
          => /\ result' = [op |-> "consume", err |-> "InvalidOperation"]
             /\ UNCHANGED Tables]_vars

\* A consume was refused on the only lot, which is active, QA-approved and
\* blocked.
C7_Witness ==
    /\ Failed("consume", "InvalidOperation")
    /\ Len(lots) = 1
    /\ lots[1].is_blocked /\ lots[1].is_active
    /\ lots[1].qa_status = "approved"

\* C8: a consume that brings the weight to zero deactivates the lot at
\* exactly 0 and one that leaves a remainder keeps it active; every consume
\* on an inactive lot fails with InvalidOperation; only an adjust to a
\* positive weight makes an inactive lot active again.
C8_FullyConsumedStaysClosed ==
    [][\A l \in DOMAIN lots :
          /\ \A raw \in RawWeights \ {0} :
                Consume(l, raw) =>
                  /\ result'.err = "ok" =>
                        /\ lots'[l].current_weight_kg >= 0
                        /\ lots'[l].is_active
                             <=> (lots[l].current_weight_kg > Quantize(raw))
                        /\ lots'[l].is_active
                             <=> (lots'[l].current_weight_kg > 0)
                  /\ ~lots[l].is_active =>
                        result' = [op |-> "consume",
                                   err |-> "InvalidOperation"]
          /\ (~lots[l].is_active /\ lots'[l].is_active) =>
                /\ result' = [op |-> "adjust", err |-> "ok"]
                /\ lots'[l].current_weight_kg > 0]_vars

\* The only lot was received with weight, is now at 0 and inactive after a
\* consumption, and a further consume on it was refused.
C8_Witness ==
    /\ Failed("consume", "InvalidOperation")
    /\ Len(lots) = 1
    /\ lots[1].net_weight_kg > 0
    /\ lots[1].current_weight_kg = 0 /\ ~lots[1].is_active
    /\ ~lots[1].is_blocked /\ lots[1].qa_status = "approved"
    /\ LastMovement.movement_type = "consumption"

\* C9: concurrent calls of next for one sequence name within one year return
\* pairwise distinct numbers (a caller is never handed a number that another
\* caller holds or has committed), and in commit order the numbers are
\* consecutive: the i-th committed movement carries number i.
C9_DistinctConsecutive ==
    /\ \A p \in Procs :
          txn[p].pc = "flushed" =>
             /\ txn[p].number \notin MovementNumbers(movements)
             /\ \A q \in Procs \ {p} :
                   txn[q].pc = "flushed" => txn[q].number # txn[p].number
    /\ \A i \in DOMAIN movements :
          movements[i].movement_number = <<"MOV", current_year, i>>

\* C10: a call of next on a year-wise sequence whose stored year differs from
\* the current year stores the current year and restarts the count, so the
\* first number it issues is 1 whatever the stored count was; when the stored
\* year is the current year the count goes on from the stored count and is
\* never reset.
C10_YearRollover ==
    [][\A n \in SeqNames :
          LET k == IF n = "movement" THEN Len(movements') - Len(movements)
                   ELSE Len(lots') - Len(lots)
              first == IF n = "movement"
                       THEN movements'[Len(movements) + 1].movement_number
                       ELSE lots'[Len(lots) + 1].lot_number
          IN  seqs[n] # NoRow =>
                /\ (k > 0 /\ seqs[n].year # current_year) =>
                      /\ seqs'[n].year = current_year
                      /\ seqs'[n].current_number = k
                      /\ first[2] = current_year /\ first[3] = 1
                /\ (k > 0 /\ seqs[n].year = current_year) =>
                      /\ seqs'[n].year = current_year
                      /\ seqs'[n].current_number
                            = seqs[n].current_number + k
                      /\ first[2] = current_year
                      /\ first[3] = seqs[n].current_number + 1
                /\ seqs[n].year = current_year =>
                      seqs'[n].current_number >= seqs[n].current_number]_vars

\* The movement sequence had issued more than one number in the first year
\* and its first number of the next year is 1.
C10_Witness ==
    /\ current_year = Year0 + 1
    /\ Len(movements) >= 3
    /\ movements[Len(movements) - 1].movement_number[2] = Year0
    /\ movements[Len(movements) - 1].movement_number[3] >= 2
    /\ LastMovement.movement_number = <<"MOV", Year0 + 1, 1>>
    /\ seqs["movement"].year = Year0 + 1
    /\ seqs["movement"].current_number = 1

\* C11: every successful split conserves weight exactly: the current weights
\* of the lots it creates plus the parent's current weight after the split
\* equal the parent's current weight before it, and a parent left with 0 is
\* deactivated.
C11_SplitConserves ==
    [][\A l \in DOMAIN lots : \A ws \in SplitInputs :
          \A tie \in TieFns(backend, SplitValues(l, ws)) :
             (result' = [op |-> "split", err |-> "ok"] /\ Split(l, ws, tie)) =>
                /\ SumSeq([i \in DOMAIN ws |->
                             lots'[Len(lots) + i].current_weight_kg])
                     + lots'[l].current_weight_kg
                        = lots[l].current_weight_kg
                /\ lots'[l].current_weight_kg = 0 => ~lots'[l].is_active]_vars

\* C12: a split whose weights add up to more than the current weight fails
\* with InsufficientStock and changes nothing: no new lot, no movement, no
\* number taken from a sequence, the parent as it was.
C12_OversplitRejected ==
    [][result'.op = "split" =>
          \A l \in DOMAIN lots : \A ws \in SplitInputs :
             \A tie \in TieFns(backend, SplitValues(l, ws)) :
                ( /\ SumSeq(ws) > ToRaw(lots[l].current_weight_kg)
                  /\ Split(l, ws, tie) )
                => /\ result' = [op |-> "split", err |-> "InsufficientStock"]
                   /\ UNCHANGED Tables]_vars

\* A split was refused for lack of stock on the only lot, which holds weight.
C12_Witness ==
    /\ Failed("split", "InsufficientStock")
    /\ Len(lots) = 1
    /\ lots[1].current_weight_kg > 0
    /\ Len(movements) = 1
    /\ seqs["lot"].current_number = 1

\* What the tables and the response would be after a call on lot l whose
\* outcome is res, made in the present state.
Outcome(l, res) ==
    Persist(l, lots[l], res, seqs["lot"], seqs["movement"], current_year)

\* C13: an adjust to the current weight fails with InvalidOperation, and so
\* does an adjust to a lower weight without an approver, both leaving the
\* lot and the movement log unchanged; with an approver the adjust to a
\* lower weight succeeds and its one movement carries created_by and
\* approved_by.  The new weight is the request weight as the ledger
\* normalizes it (quantized to 0.001 kg).  Stated of every reachable state
\* and every request that can be made in it.
C13_AdjustRules ==
    \A l \in DOMAIN lots : \A raw \in RawWeights : \A a \in Approvers :
        LET new == Quantize(raw)
            cur == lots[l].current_weight_kg
            out == Outcome(l, adjust_stock(lots[l], raw, a))
            m == out.movements[Len(out.movements)]
        IN  /\ (new = cur \/ (new < cur /\ a = NoUser)) =>
                  /\ out.err = "InvalidOperation"
                  /\ <<out.lots, out.movements, out.seqs>> = Tables
            /\ (new < cur /\ a # NoUser) =>
                  /\ out.err = "ok"
                  /\ out.lots[l].current_weight_kg = new
                  /\ Len(out.lots) = Len(lots)
                  /\ Len(out.movements) = Len(movements) + 1
                  /\ SubSeq(out.movements, 1, Len(movements)) = movements
                  /\ m.stock_lot_id = l
                  /\ m.movement_type = "adjustment_minus"
                  /\ m.weight_change_kg = new - cur
                  /\ m.created_by = CurrentUser
                  /\ m.approved_by = a

\* An approved adjust has lowered the only lot to a positive weight.
C13_Witness ==
    /\ Failed("adjust", "ok")
    /\ Len(lots) = 1
    /\ LastMovement.movement_type = "adjustment_minus"
    /\ LastMovement.approved_by = CurrentUser
    /\ LastMovement.weight_after_kg > 0
    /\ lots[1].current_weight_kg = LastMovement.weight_after_kg

\* The lots a pick for (material_id, location_id) may draw on, as the data
\* model states it, and the weight they hold.
PickEligible(material_id, location_id) ==
    {i \in DOMAIN lots :
        /\ Consumable(lots[i])
        /\ lots[i].material_id = material_id
        /\ location_id # NoLocation => lots[i].location_id = location_id}

PickAvailable(material_id, location_id) ==
    SumSeq([i \in DOMAIN lots |->
              IF i \in PickEligible(material_id, location_id)
              THEN ToRaw(lots[i].current_weight_kg) ELSE 0])

\* C16: a pick whose required weight does not exceed the weight of the
\* eligible lots succeeds; it picks eligible lots only, each once, in
\* ascending received_date order; no eligible lot left out is older than a
\* picked one; every picked lot but the last is taken in full, no pick
\* exceeds its lot, and the picks add up to exactly the required weight.
C16_FifoPlan ==
    result.op = "pick" =>
       LET E == PickEligible(result.material_id, result.location_id)
           P == result.picks
           date(i) == lots[i].received_date
       IN  result.required
              <= PickAvailable(result.material_id, result.location_id) =>
             /\ result.err = "ok"
             /\ \A j \in DOMAIN P : P[j].lot \in E
             /\ \A j, k \in DOMAIN P : P[j].lot = P[k].lot => j = k
             /\ \A j, k \in DOMAIN P :
                   j < k => date(P[j].lot) <= date(P[k].lot)
             /\ \A e \in E \ {P[j].lot : j \in DOMAIN P} :
                   \A j \in DOMAIN P : date(P[j].lot) <= date(e)
             /\ \A j \in DOMAIN P :
                   /\ 0 < P[j].weight
                   /\ P[j].weight <= ToRaw(lots[P[j].lot].current_weight_kg)
                   /\ j < Len(P) =>
                         P[j].weight = ToRaw(lots[P[j].lot].current_weight_kg)
             /\ SumSeq([j \in DOMAIN P |-> P[j].weight]) = result.required

\* A plan of two picks: the lot with the higher id, received earlier, taken
\* in full, then part of the other.
C16_Witness ==
    /\ result.op = "pick" /\ result.err = "ok"
    /\ Len(result.picks) = 2
    /\ result.picks[1].lot = 2 /\ result.picks[2].lot = 1
    /\ lots[2].received_date < lots[1].received_date
    /\ result.picks[2].weight < ToRaw(lots[1].current_weight_kg)

\* C17: a pick whose required weight exceeds the weight of the eligible lots
\* fails with InsufficientStock, returns no plan, and reports as shortfall
\* the required weight less the eligible weight.
C17_FifoShortfall ==
    result.op = "pick" =>
       LET total == PickAvailable(result.material_id, result.location_id)
       IN  result.required > total =>
             /\ result.err = "InsufficientStock"
             /\ result.picks = <<>>
             /\ result.shortfall = result.required - total

\* A pick failed although the table holds, beside an eligible lot, a
\* blocked lot of the material that would have covered it.
C17_Witness ==
    /\ result.op = "pick" /\ result.err = "InsufficientStock"
    /\ result.shortfall > 0
    /\ PickAvailable(result.material_id, result.location_id) > 0
    /\ \E i \in DOMAIN lots :
          /\ lots[i].is_blocked /\ lots[i].is_active
          /\ lots[i].qa_status = "approved"
          /\ lots[i].material_id = result.material_id
          /\ ToRaw(lots[i].current_weight_kg) >= result.shortfall


\* Whether approving line_items in turn meets a consume call that must fail:
\* left[l] is the stock of lot l after the lines before, used the lots those
\* lines drew on.  A call fails on a missing lot, on a lot that is not
\* consumable (or that an earlier line emptied), and on a weight above the
\* stock left.
RECURSIVE SomeConsumeFails(_, _, _)
SomeConsumeFails(left, used, line_items) ==
    /\ line_items # <<>>
    /\ LET l == Head(line_items).stock_lot_id
           w == Head(line_items).dispatched_weight_kg
       IN  \/ l \notin DOMAIN lots
           \/ ~Consumable(lots[l])
           \/ l \in used /\ left[l] <= 0
           \/ w > left[l]
           \/ SomeConsumeFails([left EXCEPT ![l] = @ - w], used \cup {l},
                               Tail(line_items))

StockLeft == [l \in DOMAIN lots |-> lots[l].current_weight_kg]

\* C14: in every reachable state, approving a submitted dispatch one of whose
\* consume calls fails is answered with an error and commits the tables as
\* they were: no lot changed, no movement added, no number drawn, and the
\* dispatch still submitted -- also when earlier line items were consumed.
C14_ApprovalAllOrNothing ==
    \A d \in DOMAIN dispatches :
       ( /\ dispatches[d].status = "submitted"
         /\ SomeConsumeFails(StockLeft, {}, dispatches[d].line_items) )
       => LET out == approve_dispatch(d, current_year)
          IN  /\ out.err \in {"InsufficientStock", "InvalidOperation",
                              "NotFound"}
              /\ out.lots = lots
              /\ out.movements = movements
              /\ out.seqs = seqs
              /\ out.dispatches = dispatches

\* A failed approval has been answered for a submitted dispatch whose first
\* line item could be consumed and whose second could not.
C14_Witness ==
    /\ result.op = "approve_dispatch"
    /\ result.err \in {"InsufficientStock", "InvalidOperation"}
    /\ \E d \in DOMAIN dispatches :
          /\ dispatches[d].status = "submitted"
          /\ Len(dispatches[d].line_items) = 2
          /\ LET first == dispatches[d].line_items[1]
             IN  /\ Consumable(lots[first.stock_lot_id])
                 /\ first.dispatched_weight_kg > 0
                 /\ first.dispatched_weight_kg
                       <= lots[first.stock_lot_id].current_weight_kg
          /\ SomeConsumeFails(StockLeft, {}, dispatches[d].line_items)


\* The line items of a GRN that QA accepted, in line order.
AcceptedLines(line_items) ==
    SelectSeq(line_items,
              LAMBDA line : line.qa_status \in {"approved", "conditional"})

\* C15: in every reachable state, approving a submitted GRN with a line item
\* still QA-pending is answered with an error and leaves lots, movements and
\* the GRN as they were; approving any other submitted GRN sets it to
\* approved and adds exactly one lot, with exactly one inward-purchase
\* movement, per approved or conditional line item and nothing else.
C15_GrnApproval ==
    \A g \in DOMAIN grns, loc \in InboundLocations :
       grns[g].status = "submitted" =>
          LET out == approve_grn(g, loc, current_year)
              line_items == grns[g].line_items
              accepted == AcceptedLines(line_items)
              base == Len(lots)
          IN  IF \E i \in DOMAIN line_items :
                    line_items[i].qa_status = "pending"
              THEN /\ out.err # "ok"
                   /\ out.lots = lots
                   /\ out.movements = movements
                   /\ out.grns = grns
              ELSE /\ out.err = "ok"
                   /\ out.grns[g].status = "approved"
                   /\ Len(out.lots) = base + Len(accepted)
                   /\ SubSeq(out.lots, 1, base) = lots
                   /\ Len(out.movements) = Len(movements) + Len(accepted)
                   /\ SubSeq(out.movements, 1, Len(movements)) = movements
                   /\ \A i \in DOMAIN accepted :
                         /\ out.lots[base + i].material_id
                               = accepted[i].material_id
                         /\ out.lots[base + i].net_weight_kg
                               = accepted[i].weight_kg
                         /\ out.lots[base + i].current_weight_kg
                               = accepted[i].weight_kg
                         /\ out.lots[base + i].qa_status
                               = accepted[i].qa_status
                         /\ out.lots[base + i].location_id = loc
                         /\ Len(MovementsOf(base + i, out.movements)) = 1
                         /\ LET m == MovementsOf(base + i, out.movements)[1]
                            IN  /\ m.movement_type = "inward_purchase"
                                /\ m.weight_change_kg = accepted[i].weight_kg

\* A GRN with an accepted and a refused line item has been approved, and
\* the one lot of the accepted line is there.
C15_Witness ==
    /\ result = [op |-> "approve_grn", err |-> "ok"]
    /\ \E g \in DOMAIN grns :
          /\ grns[g].status = "approved"
          /\ \E i, j \in DOMAIN grns[g].line_items :
                /\ grns[g].line_items[i].qa_status
                      \in {"approved", "conditional"}
                /\ grns[g].line_items[j].qa_status
                      \in {"rejected", "on_hold"}
    /\ Len(lots) = 1
    /\ Len(movements) = 1


\* The status changes of the shared state machine.
StatusEdges ==
    {<<"draft", "submitted">>, <<"submitted", "approved">>,
     <<"draft", "cancelled">>, <<"submitted", "cancelled">>}

\* From table old to table new every document is kept and either keeps its
\* status or moves along an edge; a new document is a draft.
StatusStep(old, new) ==
    /\ DOMAIN old \subseteq DOMAIN new
    /\ \A i \in DOMAIN new :
          IF i \in DOMAIN old
          THEN \/ new[i].status = old[i].status
               \/ <<old[i].status, new[i].status>> \in StatusEdges
          ELSE new[i].status = "draft"

\* The request is answered with an error and leaves the documents alone.
Refused(out) ==
    /\ out.err # "ok"
    /\ out.grns = grns
    /\ out.dispatches = dispatches

\* C19: at every step the status of each GRN and of each dispatch stays or
\* moves along draft -> submitted -> approved or from draft or submitted to
\* cancelled (so approved and cancelled are final), and in the state the step
\* leaves, a submit of a document that is not a draft, an approval of one
\* that is not submitted and a cancel of an approved or cancelled one are
\* refused with the documents unchanged.
C19_StateMachine ==
    [][ /\ StatusStep(grns, grns')
        /\ StatusStep(dispatches, dispatches')
        /\ \A g \in DOMAIN grns :
              /\ grns[g].status # "draft" => Refused(submit_grn(g))
              /\ grns[g].status # "submitted" =>
                    \A loc \in InboundLocations :
                       Refused(approve_grn(g, loc, current_year))
              /\ grns[g].status \in {"approved", "cancelled"} =>
                    Refused(cancel_grn(g))
        /\ \A d \in DOMAIN dispatches :
              /\ dispatches[d].status # "draft" =>
                    Refused(submit_dispatch(d))
              /\ dispatches[d].status # "submitted" =>
                    Refused(approve_dispatch(d, current_year))
      ]_vars

\* A cancel of an approved GRN has been refused, next to an approved
\* dispatch.
C19_Witness ==
    /\ result = [op |-> "cancel_grn", err |-> "BadRequest"]
    /\ \E g \in DOMAIN grns : grns[g].status = "approved"
    /\ \E d \in DOMAIN dispatches : dispatches[d].status = "approved"


\* C20: in every reachable state, a submit of a draft without line items,
\* and of a draft GRN without recorded weighbridge data, is refused with the
\* document left in draft; every request that adds or removes a line item
\* of a document that is not a draft is refused; and every submitted or
\* approved document has at least one line item.
C20_SubmitNeedsLines ==
    /\ \A g \in DOMAIN grns :
          /\ ( /\ grns[g].status = "draft"
               /\ \/ grns[g].line_items = <<>>
                  \/ grns[g].weighment_time = NoYear )
             => Refused(submit_grn(g))
          /\ grns[g].status # "draft" =>
                \A mat \in InboundMaterials, raw \in LineWeights :
                   Refused(add_line_item(g, mat, raw))
          /\ grns[g].status \in {"submitted", "approved"} =>
                grns[g].line_items # <<>>
    /\ \A d \in DOMAIN dispatches :
          /\ ( /\ dispatches[d].status = "draft"
               /\ dispatches[d].line_items = <<>> )
             => Refused(submit_dispatch(d))
          /\ dispatches[d].status # "draft" =>
                /\ \A l \in LotIds, raw \in LineWeights :
                      Refused(add_dispatch_line_item(d, l, raw))
                /\ \A i \in LineIds : Refused(remove_dispatch_line_item(d, i))
                /\ \A mat \in InboundMaterials, required \in LineWeights :
                      \A order \in FifoOrders(lots, mat, NoLocation),
                         tie \in TieFns(backend, {}) :
                         Refused(auto_pick_material(d, mat, required,
                                                    NoLocation, order, tie))
          /\ dispatches[d].status \in {"submitted", "approved"} =>
                dispatches[d].line_items # <<>>

\* A submit of a dispatch without line items has been refused, and a GRN
\* with line items and weighbridge data has gone through.
C20_Witness ==
    /\ result = [op |-> "submit_dispatch", err |-> "BadRequest"]
    /\ \E d \in DOMAIN dispatches :
          dispatches[d].status = "draft" /\ dispatches[d].line_items = <<>>
    /\ \E g \in DOMAIN grns :
          grns[g].status = "approved" /\ grns[g].line_items # <<>>


\* The weight the consumption movements of lot l took out of it.
RECURSIVE Dispatched(_, _)
Dispatched(l, ms) ==
    IF ms = <<>> THEN 0
    ELSE (IF Head(ms).stock_lot_id = l
             /\ Head(ms).movement_type = "consumption"
          THEN -Head(ms).weight_change_kg ELSE 0)
         + Dispatched(l, Tail(ms))

\* C18: in every reachable state no lot is below 0 and the weight dispatched
\* from a lot by the approvals of the plans made on it is at most the weight
\* that was received into it.
C18_DispatchedWithinStock ==
    \A l \in DOMAIN lots :
       /\ lots[l].current_weight_kg >= 0
       /\ Dispatched(l, movements) <= lots[l].net_weight_kg


\* The weight lot l held before its first movement.
InitialContribution(l) == MovementsOf(l, movements)[1].weight_before_kg

\* C21: in every reachable state every lot has movements, and their
\* weight_change values add up to the lot's current_weight minus the weight
\* the lot held before its first movement.
C21_MovementsSumToWeight ==
    \A l \in DOMAIN lots :
       /\ MovementsOf(l, movements) # <<>>
       /\ ChangesOf(l) = lots[l].current_weight_kg - InitialContribution(l)


\* C22: no step raises the current_weight of a lot unless it is the commit
\* of an adjust: a consume, a split or a transfer never writes a greater
\* weight than the lot held.
C22_NeverIncreases ==
    [][\A l \in DOMAIN lots :
          lots'[l].current_weight_kg > lots[l].current_weight_kg
             => result' = [op |-> "adjust", err |-> "ok"]]_vars


\* C23: no step changes the gross_weight, tare_weight or net_weight of a lot
\* that exists: consume, adjust, transfer and split leave the three as they
\* were written when the lot was created.
C23_ReceivedWeightsFixed ==
    [][\A l \in DOMAIN lots :
          /\ lots'[l].gross_weight_kg = lots[l].gross_weight_kg
          /\ lots'[l].tare_weight_kg = lots[l].tare_weight_kg
          /\ lots'[l].net_weight_kg = lots[l].net_weight_kg]_vars

\* The first lot was consumed from and then moved, and still carries the
\* weights it was received with.
C23_Witness ==
    /\ Len(lots) = 1
    /\ Len(movements) = 3
    /\ movements[2].movement_type = "consumption"
    /\ movements[3].movement_type = "inward_transfer"
    /\ lots[1].current_weight_kg < lots[1].net_weight_kg
    /\ lots[1].net_weight_kg = movements[1].weight_after_kg
    /\ lots[1].gross_weight_kg = movements[1].weight_after_kg


\* C24: at every step the movements committed before it are all still in
\* the log, in place and unchanged, and every lot is still in its table
\* under its lot number: both tables only grow.
C24_AppendOnly ==
    [][/\ Len(movements') >= Len(movements)
       /\ SubSeq(movements', 1, Len(movements)) = movements
       /\ Len(lots') >= Len(lots)
       /\ \A l \in DOMAIN lots : lots'[l].lot_number = lots[l].lot_number]_vars

\* A fully consumed lot is still in the table, inactive, after a later call
\* added a third movement to the log.
C24_Witness ==
    /\ Len(movements) = 3
    /\ movements[2].movement_type = "consumption"
    /\ movements[2].weight_after_kg = 0
    /\ movements[3].stock_lot_id = 1
    /\ Len(lots) = 1
    /\ ~lots[1].is_active
    /\ lots[1].current_weight_kg = 0


\* C25: a step adds rows to the lot table only when it is a successful GRN
\* approval or a successful split, and after every step the first movement
\* of every lot is an inward-purchase or a split movement with
\* weight_before = 0.
C25_LotOrigins ==
    [][/\ Len(lots') > Len(lots) =>
             /\ result'.err = "ok"
             /\ result'.op \in {"approve_grn", "split"}
       /\ \A l \in DOMAIN lots' :
             LET ms == MovementsOf(l, movements')
             IN  /\ ms # <<>>
                 /\ ms[1].movement_type \in {"inward_purchase", "split"}
                 /\ ms[1].weight_before_kg = 0]_vars

\* A GRN approval created the first lot and a split of it the second.
C25_Witness ==
    /\ Failed("split", "ok")
    /\ Len(lots) = 2
    /\ Len(grns) = 1
    /\ grns[1].status = "approved"
    /\ MovementsOf(1, movements)[1].movement_type = "inward_purchase"
    /\ MovementsOf(2, movements)[1].movement_type = "split"
    /\ lots[2].current_weight_kg > 0


\* C26: no step changes an approved GRN or an approved dispatch: its status,
\* its line items with their QA statuses and its recorded weights are after
\* the step what they were before it.
C26_ApprovedImmutable ==
    [][/\ \A g \in DOMAIN grns :
             grns[g].status = "approved" => grns'[g] = grns[g]
       /\ \A d \in DOMAIN dispatches :
             dispatches[d].status = "approved"
                => dispatches'[d] = dispatches[d]]_vars


AtLock(p) == txn[p].pc \in {"waiting", "locked"}

C29_AdjustOutcome ==
    \A l \in DOMAIN lots : \A raw \in RawWeights : \A a \in Approvers :
        LET new == Quantize(raw)
            cur == lots[l].current_weight_kg
            out == Outcome(l, adjust_stock(lots[l], raw, a))
            m == out.movements[Len(out.movements)]
        IN  out.err = "ok" =>
               /\ out.lots[l].current_weight_kg = new
               /\ Len(out.movements) = Len(movements) + 1
               /\ m.stock_lot_id = l
               /\ m.weight_before_kg = cur
               /\ m.weight_after_kg = new
               /\ m.weight_change_kg = new - cur
               /\ new > cur => m.movement_type = "adjustment_plus"
               /\ new < cur => m.movement_type = "adjustment_minus"
               /\ new # cur
               /\ out.lots[l].is_active <=> new > 0

\* A lot consumed down to 0, and so inactive, was adjusted to a positive
\* weight and is active again.
C29_Witness ==
    /\ Failed("adjust", "ok")
    /\ Len(movements) = 3
    /\ movements[2].movement_type = "consumption"
    /\ movements[2].weight_after_kg = 0
    /\ movements[3].movement_type = "adjustment_plus"
    /\ movements[3].stock_lot_id = movements[2].stock_lot_id
    /\ lots[movements[3].stock_lot_id].is_active
    /\ lots[movements[3].stock_lot_id].current_weight_kg > 0


\* C30: in every reachable state, a transfer of a lot to another location
\* succeeds, changes the location_id of that lot and nothing else in the lot
\* table, and appends exactly one movement, of the lot, with weight_change
\* 0, weight_before = weight_after = the current weight, and the from and
\* to locations; a transfer to the location the lot is at fails with
\* InvalidOperation and writes nothing.
C30_TransferOnlyMoves ==
    \A l \in DOMAIN lots : \A to \in Locations :
        LET out == Outcome(l, transfer_location(lots[l], to))
            m == out.movements[Len(out.movements)]
        IN  IF to = lots[l].location_id
            THEN /\ out.err = "InvalidOperation"
                 /\ <<out.lots, out.movements, out.seqs>> = Tables
            ELSE /\ out.err = "ok"
                 /\ out.lots = [lots EXCEPT ![l].location_id = to]
                 /\ Len(out.movements) = Len(movements) + 1
                 /\ SubSeq(out.movements, 1, Len(movements)) = movements
                 /\ m.stock_lot_id = l
                 /\ m.movement_type = "inward_transfer"
                 /\ m.weight_change_kg = 0
                 /\ m.weight_before_kg = lots[l].current_weight_kg
                 /\ m.weight_after_kg = lots[l].current_weight_kg
                 /\ m.from_location_id = lots[l].location_id
                 /\ m.to_location_id = to

\* A lot that holds weight and is blocked was moved from location 1 to
\* location 2 and is still blocked.
C30_Witness ==
    /\ Failed("transfer", "ok")
    /\ LastMovement.movement_type = "inward_transfer"
    /\ LastMovement.from_location_id = 1
    /\ LastMovement.to_location_id = 2
    /\ lots[LastMovement.stock_lot_id].location_id = 2
    /\ lots[LastMovement.stock_lot_id].is_blocked
    /\ lots[LastMovement.stock_lot_id].current_weight_kg > 0


\* C31: in every reachable state, a split that succeeds adds one lot per
\* weight, each with a lot number no other lot carries, the parent's
\* material, QA status, location and received_date, and current weight =
\* net weight = gross weight = that weight, and one split movement of the
\* new lot with weight_before 0 and weight_change = the weight; the parent
\* gets exactly one split movement, whose weight_change is minus the sum of
\* the weights.
C31_SplitOutcome ==
    \A l \in DOMAIN lots : \A ws \in SplitInputs :
       \A tie \in TieFns(backend, SplitValues(l, ws)) :
          LET out == Outcome(l, split_lot(lots[l], ws, tie))
              n == Len(ws)
              child(i) == out.lots[Len(lots) + i]
              added == SubSeq(out.movements, Len(movements) + 1,
                              Len(out.movements))
          IN  out.err = "ok" =>
                 /\ Len(out.lots) = Len(lots) + n
                 /\ Len(added) = n + 1
                 /\ \A i \in 1..n :
                       /\ child(i).lot_number \notin LotNumbers(lots)
                       /\ \A j \in 1..n : child(j).lot_number
                             = child(i).lot_number => j = i
                       /\ child(i).material_id = lots[l].material_id
                       /\ child(i).qa_status = lots[l].qa_status
                       /\ child(i).location_id = lots[l].location_id
                       /\ child(i).received_date = lots[l].received_date
                       /\ ToRaw(child(i).current_weight_kg) = ws[i]
                       /\ ToRaw(child(i).net_weight_kg) = ws[i]
                       /\ ToRaw(child(i).gross_weight_kg) = ws[i]
                       /\ added[i].stock_lot_id = Len(lots) + i
                       /\ added[i].movement_type = "split"
                       /\ added[i].weight_before_kg = 0
                       /\ ToRaw(added[i].weight_change_kg) = ws[i]
                 /\ added[n + 1].stock_lot_id = l
                 /\ added[n + 1].movement_type = "split"
                 /\ ToRaw(added[n + 1].weight_change_kg) = -SumSeq(ws)


\* The GRN lines create_lot_from_grn may be handed, in any QA status.
GrnLines ==
    [grn_id : InboundGrns, material_id : InboundMaterials,
     weight_kg : 0..MaxWeight, qa_status : QAStatus]

\* What the tables would be after create_lot_from_grn for the line, made
\* and committed in the present state.
Received(grn_line, location_id) ==
    Persist(0, <<>>, create_lot_from_grn(grn_line, location_id, current_year),
            seqs["lot"], seqs["movement"], current_year)

\* The next number of the lot sequence in the present state.
NextLotNumber ==
    get_next_sequence(seqs["lot"], "LOT", TRUE, current_year).number

\* What the receipt of a line leaves, but for the tare weight: one more lot,
\* numbered from the lot sequence with a number no lot carries, its gross,
\* net and current weight the weight of the line, its QA status that of the
\* line, active; one more movement, of that lot, inward-purchase, with
\* weight_before 0 and weight_change = weight_after = the weight of the
\* line, referring to the GRN.
ReceiptButTare(out, grn_line) ==
    LET lot == out.lots[Len(out.lots)]
        m == out.movements[Len(out.movements)]
    IN  /\ out.err = "ok"
        /\ Len(out.lots) = Len(lots) + 1
        /\ SubSeq(out.lots, 1, Len(lots)) = lots
        /\ lot.lot_number = NextLotNumber
        /\ lot.lot_number \notin LotNumbers(lots)
        /\ out.seqs["lot"].current_number = lot.lot_number[3]
        /\ lot.gross_weight_kg = grn_line.weight_kg
        /\ lot.net_weight_kg = grn_line.weight_kg
        /\ lot.current_weight_kg = grn_line.weight_kg
        /\ lot.qa_status = grn_line.qa_status
        /\ lot.is_active
        /\ Len(out.movements) = Len(movements) + 1
        /\ SubSeq(out.movements, 1, Len(movements)) = movements
        /\ m.stock_lot_id = Len(out.lots)
        /\ m.movement_type = "inward_purchase"
        /\ m.weight_before_kg = 0
        /\ m.weight_change_kg = grn_line.weight_kg
        /\ m.weight_after_kg = grn_line.weight_kg
        /\ m.reference_type = "grn"
        /\ m.reference_id = grn_line.grn_id

\* C32 (amended): in every reachable state, create_lot_from_grn for a GRN
\* line takes a fresh lot number from the lot sequence, sets the gross, net
\* and current weight of the new lot to the weight of the line and its tare
\* weight to 0, copies the QA status of the line, marks the lot active, and
\* writes one inward-purchase movement with weight_before = 0 and
\* weight_change = weight_after = the weight of the line, referring to the
\* GRN.
C32_ReceiptTareZero ==
    \A grn_line \in GrnLines : \A loc \in Locations :
        LET out == Received(grn_line, loc)
        IN  /\ ReceiptButTare(out, grn_line)
            /\ out.lots[Len(out.lots)].tare_weight_kg = 0

\* C32 as worded: the same, with the tare weight of the new lot equal to
\* the weight of the line like the gross, net and current weight.
C32_ReceiptAllWeightsEqual ==
    \A grn_line \in GrnLines : \A loc \in Locations :
        LET out == Received(grn_line, loc)
        IN  /\ ReceiptButTare(out, grn_line)
            /\ out.lots[Len(out.lots)].tare_weight_kg = grn_line.weight_kg

\* A line of positive weight was received: the lot holds it as gross, net
\* and current weight with tare 0, and its movement refers to the GRN.
C32_Witness ==
    /\ Failed("create", "ok")
    /\ LastMovement.movement_type = "inward_purchase"
    /\ LastMovement.reference_type = "grn"
    /\ LastMovement.reference_id \in InboundGrns
    /\ lots[LastMovement.stock_lot_id].gross_weight_kg > 0
    /\ lots[LastMovement.stock_lot_id].current_weight_kg
          = lots[LastMovement.stock_lot_id].gross_weight_kg
    /\ lots[LastMovement.stock_lot_id].tare_weight_kg = 0


\* The weight the line items put on lot l.
RECURSIVE LineWeightOn(_, _)
LineWeightOn(l, line_items) ==
    IF line_items = <<>> THEN 0
    ELSE (IF Head(line_items).stock_lot_id = l
          THEN Head(line_items).dispatched_weight_kg ELSE 0)
         + LineWeightOn(l, Tail(line_items))

\* C33: in every reachable state, an approval of a dispatch that succeeds
\* adds one movement per line item, in line order and after the movements
\* held: a consumption of the lot of the line, with weight_change = minus
\* the dispatched weight of the line, reference_type "dispatch" and
\* reference_id = the id of the dispatch; every lot then holds its weight
\* less the weight of the lines that name it, and the dispatch is approved.
C33_ApprovalConsumesLines ==
    \A d \in DOMAIN dispatches :
        LET out == approve_dispatch(d, current_year)
            line_items == dispatches[d].line_items
            n == Len(line_items)
        IN  out.err = "ok" =>
               /\ dispatches[d].status = "submitted"
               /\ out.dispatches[d].status = "approved"
               /\ Len(out.movements) = Len(movements) + n
               /\ SubSeq(out.movements, 1, Len(movements)) = movements
               /\ \A i \in 1..n :
                     LET m == out.movements[Len(movements) + i]
                     IN  /\ m.stock_lot_id = line_items[i].stock_lot_id
                         /\ m.movement_type = "consumption"
                         /\ m.weight_change_kg
                               = -line_items[i].dispatched_weight_kg
                         /\ m.reference_type = "dispatch"
                         /\ m.reference_id = d
               /\ Len(out.lots) = Len(lots)
               /\ \A l \in DOMAIN lots :
                     out.lots[l].current_weight_kg
                        = lots[l].current_weight_kg
                             - LineWeightOn(l, line_items)

\* A dispatch of two line items was approved: the last two movements are
\* its consumptions, one per line, and the lot both lines name holds its
\* received weight less the weight of the two.
C33_Witness ==
    /\ Failed("approve_dispatch", "ok")
    /\ Len(movements) >= 2
    /\ \E d \in DOMAIN dispatches :
          /\ dispatches[d].status = "approved"
          /\ Len(dispatches[d].line_items) = 2
          /\ \A i \in 1..2 :
                LET m == movements[Len(movements) - 2 + i]
                    line == dispatches[d].line_items[i]
                IN  /\ m.movement_type = "consumption"
                    /\ m.reference_type = "dispatch"
                    /\ m.reference_id = d
                    /\ m.stock_lot_id = line.stock_lot_id
                    /\ m.weight_change_kg = -line.dispatched_weight_kg
                    /\ m.weight_change_kg < 0
                    /\ lots[line.stock_lot_id].current_weight_kg
                          = lots[line.stock_lot_id].net_weight_kg
                               - LineWeightOn(line.stock_lot_id,
                                              dispatches[d].line_items)


\* C34: a call of next that found no counter row does not fail for it: no
\* POST /dispatch that read the "dispatch" row as absent ends with the
\* unique violation of a second counter row, whatever other first callers
\* run beside it, and the numbers handed out stay distinct.
C34_FirstCallersSucceed ==
    [][/\ \A p \in Procs :
             (Creating(p) /\ txn[p].seen = NoRow /\ txn'[p].pc = "idle")
                => result'.err # "IntegrityError"
       /\ \A d, e \in DOMAIN dispatches' :
             dispatches'[d].dispatch_number = dispatches'[e].dispatch_number
                => d = e]_vars


DispatchMovements(d) ==
    {i \in DOMAIN movements : /\ movements[i].reference_type = "dispatch"
                              /\ movements[i].reference_id = d}

\* C36: a dispatch touches the ledger at most once: in every reachable
\* state, whatever approve calls ran for it and however they overlapped,
\* the movements that refer to a dispatch are at most one per line item of
\* it, and none while it is not approved.
C36_LedgerTouchedOnce ==
    \A d \in DOMAIN dispatches :
       /\ Cardinality(DispatchMovements(d)) <= Len(dispatches[d].line_items)
       /\ dispatches[d].status # "approved" => DispatchMovements(d) = {}


\* The rows of a table carry the numbers 1, 2, ... of its sequence in
\* insert order, and the counter stands at the last of them.
Consecutive(rows, field, counter) ==
    /\ \A i \in DOMAIN rows : rows[i][field][3] = i
    /\ counter # NoRow => counter.current_number = Len(rows)
    /\ counter = NoRow => rows = <<>>

\* C37: a call that ends in an error takes no number: every step whose
\* answer is an error leaves the "lot", "movement", "grn" and "dispatch"
\* counters as they were, and after every step the numbers of the lots, of
\* the movements and of the dispatches are consecutive, without a gap,
\* with the counter at the last number given.
C37_FailureTakesNoNumber ==
    [][/\ result'.err # "ok" => seqs' = seqs
       /\ Consecutive(lots', "lot_number", seqs'["lot"])
       /\ Consecutive(movements', "movement_number", seqs'["movement"])
       /\ Consecutive(dispatches', "dispatch_number", seqs'["dispatch"])]_vars

\* An approval failed at its second line item after its first, which could
\* be consumed, had drawn a movement number: the counter stands at the
\* number of the last movement held.
C37_Witness ==
    /\ result.op = "approve_dispatch"
    /\ result.err \in {"InsufficientStock", "InvalidOperation"}
    /\ seqs["movement"].current_number = Len(movements)
    /\ LastMovement.movement_number[3] = Len(movements)
    /\ \E d \in DOMAIN dispatches :
          /\ dispatches[d].status = "submitted"
          /\ Len(dispatches[d].line_items) = 2
          /\ consume_lines(Commits(Db), d, dispatches[d].line_items,
                           current_year).seqs["movement"].current_number
                > Len(movements)


\* C38: in every reachable state, a split of a lot that is not consumable
\* (inactive, blocked, or of a QA status other than approved and
\* conditional) either fails or creates lots of the block state and QA
\* status of the parent, so that none of them is consumable.
C38_SplitKeepsHold ==
    \A l \in DOMAIN lots : \A ws \in SplitInputs :
       \A tie \in TieFns(backend, SplitValues(l, ws)) :
          LET out == Outcome(l, split_lot(lots[l], ws, tie))
          IN  (~Consumable(lots[l]) /\ out.err = "ok") =>
                 \A i \in (Len(lots) + 1)..Len(out.lots) :
                    /\ out.lots[i].is_blocked = lots[l].is_blocked
                    /\ out.lots[i].qa_status = lots[l].qa_status
                    /\ ~Consumable(out.lots[i])


\* |x| of a raw weight difference.
AbsWeight(x) == IF x < 0 THEN -x ELSE x

\* C39: the answer of reconcile(lot, physicalWeight) has variance =
\* physicalWeight - current_weight, withinTolerance true exactly when the
\* absolute variance is at most 0.5 percent of the lot's current_weight, a
\* lot of current_weight 0 included, and requires_adjustment its negation.
C39_ReconcileTolerance ==
    (result.op = "reconcile" /\ result.err = "ok") =>
       LET lot == lots[result.request[1]]
           physical == result.request[2]
           system == ToRaw(lot.current_weight_kg)
           r == result.rows
       IN  /\ r.variance_kg = physical - system
           /\ r.within_tolerance <=> 200 * AbsWeight(r.variance_kg) <= system
           /\ r.requires_adjustment = ~r.within_tolerance


\* The line items of dispatch d that a step added or changed.
TouchedLines(d) ==
    LET new == dispatches'[d].line_items
        old == IF d \in DOMAIN dispatches THEN dispatches[d].line_items
               ELSE <<>>
    IN  {i \in DOMAIN new : i \notin DOMAIN old \/ new[i] # old[i]}

\* C40: a dispatch never holds two line items of one stock lot, and a line
\* that add-line-item or auto-pick adds or merges into carries at most the
\* current_weight the lot has at that moment.
C40_OneLinePerLot ==
    [][\A d \in DOMAIN dispatches' :
          LET new == dispatches'[d].line_items
          IN  /\ \A i, j \in DOMAIN new :
                    new[i].stock_lot_id = new[j].stock_lot_id => i = j
              /\ ( /\ result'.op \in {"add_dispatch_line_item",
                                      "auto_pick_material"}
                   /\ result'.err = "ok" )
                 => \A i \in TouchedLines(d) :
                       new[i].dispatched_weight_kg
                          <= lots[new[i].stock_lot_id].current_weight_kg]_vars

====
